---- MODULE Spec2Model ----
(***************************************************************************)
(* A model of magento2-static-deploy (src/main.go): the layered copy of    *)
(* one deployment job (deployTheme, copyDirectoryWithModulePrefix,         *)
(* copyFile), the job list (parseCSV, createDeployJobs), and the worker    *)
(* pool with its driver (processJobs, worker, deployStatic, main).         *)
(* The locale-level symlink mode and the resolution and classification of  *)
(* themes are not part of main.go; they are modelled from the              *)
(* specification, on top of the job list and the pool.                     *)
(* The file watcher (watcher.go, printed in src/README.md) and the LESS    *)
(* staging and compilation (less_preprocessor.go and less.go, in           *)
(* src/main.go) are modelled from their code.                              *)
(*                                                                         *)
(* Representation.                                                         *)
(*  - A path is a sequence of segments (strings); "/" is the gap between   *)
(*    two segments.  filepath.Join is concatenation followed by Clean.     *)
(*  - The file system under <root>/pub/static is a function from paths     *)
(*    (relative to pub/static) to entries: a directory, a regular file     *)
(*    with the identity of the bytes it holds, or a symbolic link.         *)
(*  - The source tree is read-only: a record of directories, each a        *)
(*    function from relative paths to source files.  A source file has an  *)
(*    identity (its bytes) and says how reading it goes: "ok", "noopen"    *)
(*    (os.Open or the walk reports an error) or "partial" (io.Copy fails   *)
(*    after os.Create made the destination).                               *)
(***************************************************************************)
EXTENDS Integers, Sequences, FiniteSets, TLC

VARIABLES
    src,        \* the source tree (never written by the program)
    fs,         \* the tree under pub/static
    job,        \* the job deployTheme is called with
    dt,         \* the call of deployTheme: its position, locals and result
    run,        \* number of the current call of deployTheme on this job
    hist,       \* history: the tree each call started on, with the result
                \* and the log of the call before it
    args,       \* the command line (-locales, -themes, -areas, -jobs,
                \* -force) and the number of CPUs of the machine
    main,       \* the main goroutine: its position and locals
    jobs,       \* the job list made by createDeployJobs
    results,    \* processJobs' results slice
    jobChan,    \* processJobs' channel of tasks
    feeder,     \* the goroutine sending the tasks
    workers,    \* the worker goroutines: position and locals of each
    wg,         \* the counter of the sync.WaitGroup
    stores,     \* history: the writes to the results slice, in order
    reducer,    \* the locale-level symlink mode: its position, the deferred
                \* locales and the links made for them
    resolver,   \* the resolution and classification of one theme: its
                \* position, the ancestry chain and the verdict
    watcher,    \* the FileWatcher: the watched directory, the snapshot, the
                \* ticker, the goroutine and the callers of Stop
    less        \* the LESS preprocessor: the staging directory, the compile
                \* script and the calls of PreprocessAndCompile

jobVars == <<src, fs, job, dt, run, hist>>
runVars == <<args, main, jobs, results, jobChan, feeder, workers, wg, stores>>
modeVars == <<reducer, resolver, watcher, less>>
vars == <<src, fs, job, dt, run, hist,
          args, main, jobs, results, jobChan, feeder, workers, wg, stores,
          reducer, resolver, watcher, less>>

----------------------------------------------------------------------------
(* Bounds of the model *)

\* most source files in one generated source tree
MaxFiles == 2
\* calls of deployTheme on the same job and the same sources
MaxRuns == 2

----------------------------------------------------------------------------
(* Paths *)

RECURSIVE Clean(_)
\* filepath.Clean on a relative path: "" and "." vanish, ".." removes the
\* segment before it (and stays when there is none).
Clean(p) ==
    IF p = <<>> THEN <<>>
    ELSE LET c == Clean(SubSeq(p, 1, Len(p) - 1))
             s == p[Len(p)]
         IN  IF s = "" \/ s = "." THEN c
             ELSE IF s = ".." /\ c # <<>> /\ c[Len(c)] # ".."
                  THEN SubSeq(c, 1, Len(c) - 1)
                  ELSE Append(c, s)

\* filepath.Join(a, b)
Join(a, b) == Clean(a \o b)

\* filepath.Dir of a cleaned path
Dir(p) == IF p = <<>> THEN <<>> ELSE SubSeq(p, 1, Len(p) - 1)

IsPrefix(a, b) == Len(a) <= Len(b) /\ SubSeq(b, 1, Len(a)) = a

----------------------------------------------------------------------------
(* The file system under pub/static *)

DirEntry == [k |-> "dir", c |-> <<>>, full |-> TRUE, to |-> <<>>]
FileEntry(c, full) == [k |-> "file", c |-> c, full |-> full, to |-> <<>>]
LinkEntry(to) == [k |-> "link", c |-> <<>>, full |-> TRUE, to |-> to]

\* The root (pub/static itself) is a directory that always exists.
IsDir(f, p) == p = <<>> \/ (p \in DOMAIN f /\ f[p].k = "dir")

\* What a path resolves to after following one symbolic link.
Resolve(f, p) == IF p \in DOMAIN f /\ f[p].k = "link" THEN f[p].to ELSE p

\* os.Stat(p) returns err == nil: the entry exists, and a link's target too.
StatOk(f, p) == p = <<>> \/ (p \in DOMAIN f /\ Resolve(f, p) \in DOMAIN f)

\* os.MkdirAll(p, 0755): creates the missing directories from the top down
\* and stops at the first segment held by something that is not a directory;
\* n is the length of the path its error names (0 without an error).
MkdirAll(f, p) ==
    LET blocked == {i \in 1..Len(p) :
                      SubSeq(p, 1, i) \in DOMAIN f /\ f[SubSeq(p, 1, i)].k # "dir"}
        stop    == IF blocked = {} THEN Len(p) + 1
                   ELSE CHOOSE i \in blocked : \A j \in blocked : i <= j
        made    == {SubSeq(p, 1, i) : i \in 1..(stop - 1)} \ DOMAIN f
    IN  [fs  |-> [q \in DOMAIN f \cup made |-> IF q \in DOMAIN f THEN f[q] ELSE DirEntry],
         err |-> blocked # {},
         n   |-> IF blocked = {} THEN 0 ELSE stop]

\* os.Create(p): O_CREATE|O_TRUNC through a symbolic link; fails when the
\* directory of the file to create is missing or the path is a directory.
CreateTarget(f, p) == Resolve(f, p)
CreateOk(f, p) ==
    LET t == CreateTarget(f, p)
    IN  /\ t # <<>>
        /\ IsDir(f, Dir(t))
        /\ ~(t \in DOMAIN f /\ f[t].k # "file")

\* The tree after os.Create(p) and io.Copy wrote the bytes c (all of them, or
\* a part when the copy failed).
WriteFile(f, p, c, full) ==
    LET t == CreateTarget(f, p)
    IN  [q \in DOMAIN f \cup {t} |-> IF q = t THEN FileEntry(c, full) ELSE f[q]]

----------------------------------------------------------------------------
(* The source tree *)

\* Identity of a source directory: the theme's web directory, the library,
\* or directory d of package i (s = 0) or of its s-th src/module-* directory.
Tag(g, i, s, d) == [g |-> g, i |-> i, s |-> s, d |-> d]
DesignTag(d) == Tag("design", 0, 0, d)
LibTag == Tag("lib", 0, 0, <<>>)

\* A source file: the identity of its bytes and how reading it goes.
SrcFile(tag, rel, io) == [c |-> [t |-> tag, r |-> rel], io |-> io]

\* A module descriptor (etc/module.xml): absent, not parseable, or naming a
\* module.  A name is kept as the path it is when joined into a path.
NoXml == [st |-> "absent", name |-> <<>>]
BadXml == [st |-> "bad", name |-> <<>>]
Xml(name) == [st |-> "ok", name |-> name]

\* getModuleName: etc/module.xml, else src/etc/module.xml; "" when the file
\* found cannot be read or parsed.
getModuleName(p) ==
    IF p.etc.st # "absent"
    THEN (IF p.etc.st = "ok" THEN p.etc.name ELSE <<>>)
    ELSE IF p.srcetc.st # "absent"
         THEN (IF p.srcetc.st = "ok" THEN p.srcetc.name ELSE <<>>)
         ELSE <<>>

\* Rank of a file or directory name in the byte order filepath.Walk lists
\* the names of one directory in.
NameRank(s) ==
    CASE s = ".DS_Store" -> 1
      [] s = "A.LESS" -> 2
      [] s = "a" -> 3
      [] s = "a.less" -> 4
      [] s = "app.css" -> 5
      [] s = "css" -> 6
      [] s = "docs" -> 7
      [] s = "email-fonts.less" -> 8
      [] s = "email-inline.less" -> 9
      [] s = "email.less" -> 10
      [] s = "js" -> 11
      [] s = "node_modules" -> 12
      [] s = "tailwind" -> 13
      [] s = "x.js" -> 14
      [] OTHER -> 15

RECURSIVE WalkBefore(_, _)
\* p is visited before q by filepath.Walk (p # q, neither a prefix of the
\* other since both are files).
WalkBefore(p, q) ==
    IF p = <<>> THEN TRUE
    ELSE IF q = <<>> THEN FALSE
    ELSE IF p[1] = q[1] THEN WalkBefore(Tail(p), Tail(q))
    ELSE NameRank(p[1]) < NameRank(q[1])

\* The first of a non-empty set of relative paths in walk order.
WalkFirst(S) == CHOOSE p \in S : \A q \in S \ {p} : WalkBefore(p, q)

----------------------------------------------------------------------------
(* Copying one directory *)

\* shouldSkipFile: the relative path contains "/docs/" or starts with
\* "tailwind/".
shouldSkipFile(rel) ==
    \/ \E i \in 2..(Len(rel) - 1) : rel[i] = "docs"
    \/ (Len(rel) >= 2 /\ rel[1] = "tailwind")

\* copyFile with the error of io.Copy dropped.
copyFileCopyErrorDropped(f, file, dst) ==
    IF file.io = "noopen" THEN [fs |-> f, err |-> TRUE, at |-> "src"]
    ELSE IF ~CreateOk(f, dst) THEN [fs |-> f, err |-> TRUE, at |-> "dst"]
    ELSE [fs |-> WriteFile(f, dst, file.c, file.io # "partial"), err |-> FALSE,
          at |-> "none"]

\* copyFile(src, dst) on tree f: os.Open, os.Create, io.Copy.  at tells
\* which path the error names: the source (os.Open), the destination
\* (os.Create), or either of them (io.Copy: the read or the write failed).
copyFile(f, file, dst) ==
    IF file.io = "noopen" THEN [fs |-> f, err |-> TRUE, at |-> "src"]
    ELSE IF ~CreateOk(f, dst) THEN [fs |-> f, err |-> TRUE, at |-> "dst"]
    ELSE IF file.io = "partial"
         THEN [fs |-> WriteFile(f, dst, file.c, FALSE), err |-> TRUE, at |-> "any"]
         ELSE [fs |-> WriteFile(f, dst, file.c, TRUE), err |-> FALSE, at |-> "none"]

\* The end of the walk callback: copyFile's error is returned, or the file
\* is counted.  st is [fs, count, err, made, at]; made lists the destination
\* paths copyFile was called on without an error.
copyCounted(st, r, destPath) ==
    IF r.err THEN [st EXCEPT !.fs = r.fs, !.err = TRUE, !.at = r.at]
    ELSE [fs |-> r.fs, count |-> st.count + 1, err |-> FALSE,
          made |-> st.made \cup {destPath}, at |-> "none"]

\* The copy without the "skip if destination exists" check.
copyEvenIfExists(st, f1, file, destPath) ==
    copyCounted(st, copyFile(f1, file, destPath), destPath)

\* "Skip if destination exists", on the tree f1 left by os.MkdirAll.
copyUnlessExists(st, f1, file, destPath) ==
    IF StatOk(f1, destPath) THEN [st EXCEPT !.fs = f1]
    ELSE copyCounted(st, copyFile(f1, file, destPath), destPath)

\* "Create destination subdirectory" (its error is dropped).
copyTo(st, file, destPath) ==
    copyUnlessExists(st, MkdirAll(st.fs, Dir(destPath)).fs, file, destPath)

\* The walk callback without the module prefix in the destination path.
copyOneNoPrefix(st, files, rel, dst, modulePrefix) ==
    IF shouldSkipFile(rel) THEN st
    ELSE copyTo(st, files[rel], Join(dst, rel))

\* The walk callback of copyDirectoryWithModulePrefix for one regular file.
\* Both branches on modulePrefix join dst, the prefix (if any) and relPath.
copyOne(st, files, rel, dst, modulePrefix) ==
    IF shouldSkipFile(rel) THEN st
    ELSE copyTo(st, files[rel],
                IF modulePrefix # <<>> THEN Join(dst, modulePrefix \o rel)
                ELSE Join(dst, rel))

RECURSIVE copyWalkPastErrors(_, _, _, _, _)
\* A walk that goes on with the next file after an error.
copyWalkPastErrors(st, files, todo, dst, modulePrefix) ==
    IF todo = {} THEN st
    ELSE LET rel == WalkFirst(todo)
         IN  copyWalkPastErrors(copyOne(st, files, rel, dst, modulePrefix), files,
                                todo \ {rel}, dst, modulePrefix)

RECURSIVE copyWalk(_, _, _, _, _)
\* filepath.Walk over the files not yet visited: stops at the first error.
copyWalk(st, files, todo, dst, modulePrefix) ==
    IF todo = {} \/ st.err THEN st
    ELSE LET rel == WalkFirst(todo)
         IN  copyWalk(copyOne(st, files, rel, dst, modulePrefix), files,
                      todo \ {rel}, dst, modulePrefix)

\* copyDirectoryWithModulePrefix(src, dst, modulePrefix) on tree f.
copyDirectoryWithModulePrefix(f, files, dst, modulePrefix) ==
    copyWalk([fs |-> f, count |-> 0, err |-> FALSE, made |-> {}, at |-> "none"],
             files, DOMAIN files, dst, modulePrefix)

\* copyDirectory(src, dst)
copyDirectory(f, files, dst) == copyDirectoryWithModulePrefix(f, files, dst, <<>>)

----------------------------------------------------------------------------
(* deployTheme *)

\* A call of deployTheme on tree f: pc is the position in the function, log
\* the source directories copied so far, each with the error flag and the
\* destination paths of the files it placed.
NoError == "nil"
Frame(f) ==
    [fs |-> f, pc |-> "start", fileCount |-> 0, pkgIdx |-> 1, log |-> <<>>,
     ret |-> [count |-> 0, err |-> NoError]]

Logged(tag, r) == [tag |-> tag, err |-> r.err, made |-> r.made, at |-> r.at]

\* return count, err
Return(d, f, count, err) ==
    [d EXCEPT !.fs = f, !.pc = "done", !.ret = [count |-> count, err |-> err]]

\* filepath.Join(magentoRoot, "pub/static", job.Area, job.Theme, job.Locale),
\* relative to pub/static
destDirOf(j) == Clean(j.Area \o j.Theme \o j.Locale)

\* The theme name check and the creation of the destination directory.
dtStart(d, j) ==
    IF Len(j.Theme) # 2 THEN Return(d, d.fs, 0, "invalid theme name")
    ELSE LET m == MkdirAll(d.fs, destDirOf(j))
         IN  IF m.err THEN Return(d, m.fs, 0, "failed to create destination directory")
             ELSE [d EXCEPT !.fs = m.fs, !.pc = "theme"]

\* filepath.Join(magentoRoot, "app/design", job.Area, themeVendor, themeName,
\* "web"), relative to app/design
themeWebDirOf(j) == Clean(j.Area \o <<j.Theme[1], j.Theme[2], "web">>)

\* After a copy the job cannot go on without: its error is returned, or its
\* count added to fileCount.
dtCopied(d, tag, r, failure, next) ==
    IF r.err
    THEN [Return(d, r.fs, 0, failure) EXCEPT !.log = Append(d.log, Logged(tag, r))]
    ELSE [d EXCEPT !.fs = r.fs, !.pc = next, !.fileCount = d.fileCount + r.count,
                   !.log = Append(d.log, Logged(tag, r))]

\* 1. Copy theme web directory
dtTheme(d, s, j) ==
    IF themeWebDirOf(j) \notin DOMAIN s.design THEN [d EXCEPT !.pc = "lib"]
    ELSE dtCopied(d, DesignTag(themeWebDirOf(j)),
                  copyDirectory(d.fs, s.design[themeWebDirOf(j)], destDirOf(j)),
                  "failed to copy theme directory", "lib")

\* 2. Copy lib files
dtLib(d, s, j) ==
    IF DOMAIN s.lib = {} THEN [d EXCEPT !.pc = "ext"]
    ELSE dtCopied(d, LibTag, copyDirectory(d.fs, s.lib, destDirOf(j)),
                  "failed to copy library files", "ext")

\* The four directories of a package the vendor loop looks at, in its order.
packageDirs(j) ==
    << Clean(<<"view">> \o j.Area \o <<"web">>),
       Clean(<<"src", "view">> \o j.Area \o <<"web">>),
       <<"view", "base", "web">>,
       <<"src", "view", "base", "web">> >>

\* The two directories of a src/module-* directory, in the loop's order.
subModuleDirs(j) ==
    << Clean(<<"view">> \o j.Area \o <<"web">>), <<"view", "base", "web">> >>

\* After a copy of the vendor loop: `continue` on an error, else the count
\* is added.  a is [fs, count, log, skip]; skip is set by `continue`.
extCopied(a, tag, r) ==
    IF r.err
    THEN [a EXCEPT !.fs = r.fs, !.skip = TRUE, !.log = Append(a.log, Logged(tag, r))]
    ELSE [a EXCEPT !.fs = r.fs, !.count = a.count + r.count,
                   !.log = Append(a.log, Logged(tag, r))]

\* One `if the directory exists, copy it` block of the vendor loop.  With
\* emailCase, Magento_Email is copied without module prefix.
extBlock(a, dirs, dir, tag, dst, name, emailCase) ==
    IF a.skip \/ dir \notin DOMAIN dirs THEN a
    ELSE extCopied(a, tag,
             copyDirectoryWithModulePrefix(a.fs, dirs[dir], dst,
                 IF emailCase /\ name = <<"Magento_Email">> THEN <<>> ELSE name))

RECURSIVE extPackageDirs(_, _, _, _, _)
\* The blocks for view/{area}/web, src/view/{area}/web, view/base/web and
\* src/view/base/web of package i, from the k-th on.
extPackageDirs(a, p, i, k, j) ==
    IF k > 4 THEN a
    ELSE extPackageDirs(
             extBlock(a, p.dirs, packageDirs(j)[k], Tag("pkg", i, 0, packageDirs(j)[k]),
                      destDirOf(j), getModuleName(p), TRUE),
             p, i, k + 1, j)

RECURSIVE extSubModuleDirs(_, _, _, _, _, _)
\* The blocks for view/{area}/web and view/base/web of the n-th src/module-*
\* directory m of package i, from the k-th on.
extSubModuleDirs(a, m, i, n, k, j) ==
    IF k > 2 THEN a
    ELSE extSubModuleDirs(
             extBlock(a, m.dirs, subModuleDirs(j)[k], Tag("pkg", i, n, subModuleDirs(j)[k]),
                      destDirOf(j), getModuleName(m), FALSE),
             m, i, n, k + 1, j)

\* The src/module-* loop goes on with the next directory after a `continue`.
extResume(a) == [a EXCEPT !.skip = FALSE]

RECURSIVE extSubModules(_, _, _, _, _)
\* The src/module-* loop of package i, from its n-th directory on.
extSubModules(a, p, i, n, j) ==
    IF n > Len(p.subs) THEN a
    ELSE extSubModules(extResume(extSubModuleDirs(a, p.subs[n], i, n, 1, j)),
                       p, i, n + 1, j)

\* A `continue` in one of the four blocks leaves out the src/module-* loop.
extAfterDirs(a, p, i, j) == IF a.skip THEN a ELSE extSubModules(a, p, i, 1, j)

\* The body of the package loop for package i of the vendor directory.
extPackage(a, p, i, j) == extAfterDirs(extPackageDirs(a, p, i, 1, j), p, i, j)

\* fileCount += count, for the counts of one package.
dtCounted(d, a) ==
    [d EXCEPT !.fs = a.fs, !.fileCount = d.fileCount + a.count, !.log = a.log,
              !.pkgIdx = d.pkgIdx + 1]

\* 3. Copy extension view files: one package of the vendor loop, or the end
\* of the loop.
dtPackage(d, s, j) ==
    IF d.pkgIdx > Len(s.pkgs) THEN [d EXCEPT !.pc = "end"]
    ELSE dtCounted(d, extPackage([fs |-> d.fs, count |-> 0, log |-> d.log, skip |-> FALSE],
                                 s.pkgs[d.pkgIdx], d.pkgIdx, j))

\* if fileCount == 0 { return 0, "theme directory not found" }; return fileCount, nil
dtFinish(d) ==
    IF d.fileCount = 0 THEN Return(d, d.fs, 0, "theme directory not found")
    ELSE Return(d, d.fs, d.fileCount, NoError)

\* One step of a call of deployTheme.
dtStep(d, s, j) ==
    CASE d.pc = "start" -> dtStart(d, j)
      [] d.pc = "theme" -> dtTheme(d, s, j)
      [] d.pc = "lib" -> dtLib(d, s, j)
      [] d.pc = "ext" -> dtPackage(d, s, j)
      [] d.pc = "end" -> dtFinish(d)
      [] OTHER -> d

RECURSIVE dtRun(_, _, _)
\* deployTheme run to its return.
dtRun(d, s, j) == IF d.pc = "done" THEN d ELSE dtRun(dtStep(d, s, j), s, j)

\* deployTheme(magentoRoot, job, version) on tree f
deployTheme(f, s, j) == dtRun(Frame(f), s, j)

----------------------------------------------------------------------------
(* Themes in vendor packages *)

\* strings.ToLower on the vendor and theme names of the model.
ToLower(s) ==
    CASE s = "Vendor" -> "vendor"
      [] s = "Hyva" -> "hyva"
      [] s = "Parent" -> "parent"
      [] s = "Magento" -> "magento"
      [] s = "MageOS" -> "mageos"
      [] OTHER -> s

\* getVendorThemePath(area, themeName), relative to vendor/; area is one
\* path segment.
getVendorThemePath(area, theme) ==
    IF Len(theme) # 2 THEN <<>>
    ELSE CASE ToLower(theme[1]) = "magento" ->
                IF area = "adminhtml"
                THEN <<"magento", "theme-" \o area \o "-" \o ToLower(theme[2])>>
                ELSE <<"magento", "theme-frontend-" \o ToLower(theme[2])>>
           [] ToLower(theme[1]) = "hyva" ->
                <<"hyva-themes", "magento2-hyva-" \o ToLower(theme[2]), "web">>
           [] ToLower(theme[1]) \in {"mage-os", "mageos"} ->
                <<"mage-os", "theme-" \o area \o "-" \o ToLower(theme[2])>>
           [] OTHER ->
                IF area = "adminhtml"
                THEN <<ToLower(theme[1]), "theme-adminhtml-" \o ToLower(theme[2])>>
                ELSE <<ToLower(theme[1]), "theme-frontend-" \o ToLower(theme[2])>>

\* The theme's directory exists below app/design.  Of a theme the tree
\* records the web directory only.
inAppDesign(s, j) == \E d \in DOMAIN s.design : IsPrefix(Clean(j.Area \o j.Theme), d)

\* The theme's directory exists below vendor: a package of the tree is at
\* the path getVendorThemePath names.
inVendor(s, j) ==
    \E i \in 1..Len(s.pkgs) :
        /\ "path" \in DOMAIN s.pkgs[i]
        /\ s.pkgs[i].path = getVendorThemePath(j.Area[1], j.Theme)

\* themeExists(magentoRoot, area, themeName)
themeExists(s, j) == inAppDesign(s, j) \/ inVendor(s, j)

----------------------------------------------------------------------------
(* Strings *)

RECURSIVE Str(_)
\* The string a sequence of pieces spells.
Str(t) == IF t = <<>> THEN "" ELSE Head(t) \o Str(Tail(t))

\* strings.Contains(s, sub)
Contains(s, sub) ==
    \E i \in 0..(Len(s) - Len(sub)) : SubSeq(s, i + 1, i + Len(sub)) = sub

RECURSIVE Split(_, _)
\* strings.Split(s, sep): the parts between the separators, empty ones too.
Split(s, sep) ==
    IF \A i \in 1..Len(s) : s[i] # sep THEN <<s>>
    ELSE LET k == CHOOSE i \in 1..Len(s) :
                      s[i] = sep /\ \A m \in 1..(i - 1) : s[m] # sep
         IN  <<SubSeq(s, 1, k - 1)>> \o Split(SubSeq(s, k + 1, Len(s)), sep)

\* strings.TrimSpace(s)
TrimSpace(s) ==
    LET keep == {i \in 1..Len(s) : s[i] # " "}
    IN  IF keep = {} THEN <<>>
        ELSE SubSeq(s, CHOOSE i \in keep : \A m \in keep : i <= m,
                       CHOOSE i \in keep : \A m \in keep : m <= i)

\* The path a string is when it is joined into a path.
PathOf(t) == [i \in 1..Len(Split(t, "/")) |-> Str(Split(t, "/")[i])]

----------------------------------------------------------------------------
(* The job list *)

\* parseCSV(s)
parseCSV(s) ==
    IF s = <<>> THEN <<>>
    ELSE SelectSeq([i \in 1..Len(Split(s, ",")) |-> TrimSpace(Split(s, ",")[i])],
                   LAMBDA item : item # <<>>)

RECURSIVE Flatten(_)
\* The appends of a loop, one after the other.
Flatten(ss) == IF ss = <<>> THEN <<>> ELSE Head(ss) \o Flatten(Tail(ss))

DeployJob(locale, theme, area) == [Locale |-> locale, Theme |-> theme, Area |-> area]

\* A job list without the loop over the areas: the first area only.
createDeployJobsFirstArea(locales, themes, areas) ==
    Flatten([l \in 1..Len(locales) |->
        Flatten([t \in 1..Len(themes) |->
            [a \in 1..(IF areas = <<>> THEN 0 ELSE 1) |->
                DeployJob(locales[l], themes[t], areas[a])]])])

\* createDeployJobs(locales, themes, areas): for locale, for theme, for area.
createDeployJobs(locales, themes, areas) ==
    Flatten([l \in 1..Len(locales) |->
        Flatten([t \in 1..Len(themes) |->
            [a \in 1..Len(areas) |-> DeployJob(locales[l], themes[t], areas[a])]])])

\* The job as deployTheme takes it apart: strings.Split(job.Theme, "/"), and
\* job.Area and job.Locale as the paths they are inside filepath.Join.
jobPaths(j) ==
    [Locale |-> PathOf(j.Locale), Theme |-> PathOf(j.Theme), Area |-> PathOf(j.Area)]

----------------------------------------------------------------------------
(* The worker pool and its driver *)

NotFoundText == <<"theme", " ", "directory", " ", "not", " ", "found">>
SkippedText == <<"theme", " ", "not", " ", "found">>

\* The paths an error of the operating system can name when a copy into the
\* job's destination fails: the source directory read or the destination.
copyErrorPaths(srcDir, j, at) ==
    { srcDir \o <<"/", "file">> : x \in {at} \cap {"src", "any"} }
    \cup { <<"pub", "/", "static", "/">> \o j.Area \o <<"/">> \o j.Theme \o <<"/">>
               \o j.Locale \o <<"/", "file">> : x \in {at} \cap {"dst", "any"} }

\* The path the error of the last copy of call d names.
failedAt(d) == IF d.log = <<>> THEN "none" ELSE d.log[Len(d.log)].at

\* The segments of the job's destination below pub/static, as text: the
\* area, theme and locale are joined and cleaned of empty and "." segments.
destSegments(j) ==
    SelectSeq(Split(j.Area \o <<"/">> \o j.Theme \o <<"/">> \o j.Locale, "/"),
              LAMBDA x : x # <<>> /\ x # <<".">>)

RECURSIVE slashed(_)
\* The segments, each after a "/".
slashed(segs) == IF segs = <<>> THEN <<>> ELSE <<"/">> \o Head(segs) \o slashed(Tail(segs))

\* The path os.MkdirAll's error names: the first n segments of the
\* destination, below pub/static.
mkdirErrorPath(j, n) == <<"pub", "/", "static">> \o slashed(SubSeq(destSegments(j), 1, n))

\* The texts err.Error() can be for the error deployTheme returned; at and n
\* say which path the error of the operating system names.
errorTexts(err, j, at, n) ==
    CASE err = NoError -> {<<>>}
      [] err = "invalid theme name" ->
            {<<"invalid", " ", "theme", " ", "name", ":", " ">> \o j.Theme}
      [] err = "failed to create destination directory" ->
            {<<"failed", " ", "to", " ", "create", " ", "destination", " ",
               "directory", ":", " ", "mkdir", " ">> \o mkdirErrorPath(j, n)
             \o <<":", " ", "errno">>}
      [] err = "failed to copy theme directory" ->
            {<<"failed", " ", "to", " ", "copy", " ", "theme", " ", "directory",
               ":", " ", "op", " ">> \o p \o <<":", " ", "errno">> :
             p \in copyErrorPaths(<<"app", "/", "design", "/">> \o j.Area
                                  \o <<"/">> \o j.Theme \o <<"/", "web">>, j, at)}
      [] err = "failed to copy library files" ->
            {<<"failed", " ", "to", " ", "copy", " ", "library", " ", "files",
               ":", " ", "op", " ">> \o p \o <<":", " ", "errno">> :
             p \in copyErrorPaths(<<"vendor", "/", "mage-os", "/", "magento2-base",
                                    "/", "lib", "/", "web">>, j, at)}
      [] OTHER -> {NotFoundText \o <<" ", "for", " ">> \o j.Area \o <<"/">> \o j.Theme}

\* The zero value of DeployResult (its Duration is left out: the model has
\* no clock).
ZeroResult == [Job |-> DeployJob(<<>>, <<>>, <<>>), FilesCount |-> 0, Error |-> <<>>]

\* A result that keeps the "not found" error as an error.
resultOfErrorKept(j, fileCount, failed, text) ==
    [Job |-> j,
     FilesCount |-> fileCount,
     Error |-> IF ~failed THEN <<>>
               ELSE j.Theme \o <<"/">> \o j.Area \o <<" ", "(">> \o j.Locale
                    \o <<")", ":", " ">> \o text]

\* The result a worker builds: a "not found" error is marked as skipped
\* instead of error.
resultOf(j, fileCount, failed, text) ==
    [Job |-> j,
     FilesCount |-> fileCount,
     Error |-> IF ~failed \/ Contains(text, NotFoundText) THEN <<>>
               ELSE j.Theme \o <<"/">> \o j.Area \o <<" ", "(">> \o j.Locale
                    \o <<")", ":", " ">> \o text]

\* A task that points at the first slot, whatever its job.
taskForFirstSlot(js, i) == [job |-> js[i], resultIdx |-> 1]

\* &deployTask{job: jobs[i], resultIdx: i, results: results}; the model's
\* slices start at 1.
taskFor(js, i) == [job |-> js[i], resultIdx |-> i]

\* A worker that returns after a task with an error.
afterTaskStopOnError(result) == IF result.Error # <<>> THEN "exit" ELSE "recv"

\* `for task := range jobChan`: after a task the worker takes the next one,
\* whatever the result of the task was.
afterTask(result) == "recv"

\* A wg.Wait() that returns at once.
waitReturnsAtOnce(n) == n >= 0

\* wg.Wait() returns when the counter is zero.
waitReturns(n) == n = 0

\* The locals of a worker; placed is what its last call of deployTheme left
\* in the destination tree, log the directories the call copied.
IdleWorker == [pc |-> "none", task |-> taskFor(<<DeployJob(<<>>, <<>>, <<>>)>>, 1),
               fileCount |-> 0, err |-> NoError, text |-> <<>>, placed |-> {},
               log |-> <<>>]

\* The paths of the regular files tree g has and tree f has not, or has with
\* other content.
PlacedBetween(f, g) ==
    {p \in DOMAIN g : g[p].k = "file" /\ (p \notin DOMAIN f \/ f[p] # g[p])}

RECURSIVE totalOf(_)
\* for _, result := range results { totalFiles += result.FilesCount }
totalOf(rs) == IF rs = <<>> THEN 0 ELSE Head(rs).FilesCount + totalOf(Tail(rs))

\* printResults: a line for every result and the totals over the results
\* without error.
printResults(rs) ==
    [lines   |-> [i \in 1..Len(rs) |->
                    IF rs[i].Error = <<>>
                    THEN [ok |-> TRUE, job |-> rs[i].Job, files |-> rs[i].FilesCount,
                          error |-> <<>>]
                    ELSE [ok |-> FALSE, job |-> ZeroResult.Job, files |-> 0,
                          error |-> rs[i].Error]],
     success |-> Cardinality({i \in 1..Len(rs) : rs[i].Error = <<>>}),
     files   |-> totalOf(SelectSeq(rs, LAMBDA r : r.Error = <<>>))]

\* "Check for actual errors (not skipped themes)"
hasErrors(rs) ==
    \E i \in 1..Len(rs) : rs[i].Error # <<>> /\ ~Contains(rs[i].Error, SkippedText)

\* pub/static/deployed_version.txt and what createDeploymentVersionFile
\* writes into it.
VersionFile == <<"deployed_version.txt">>
VersionBytes == [t |-> Tag("version", 0, 0, <<>>), r |-> <<>>]

\* createDeploymentVersionFile: os.WriteFile, its error dropped by the caller.
createDeploymentVersionFile(f) ==
    IF CreateOk(f, VersionFile) THEN WriteFile(f, VersionFile, VersionBytes, TRUE) ELSE f

MainStart == [pc |-> "parse", numJobs |-> 0,
              lists |-> [locales |-> <<>>, themes |-> <<>>, areas |-> <<>>],
              i |-> 0, totalFiles |-> 0,
              report |-> printResults(<<>>), exit |-> -1]

\* The state a run of the program starts in, for the command line a.
RunInit(a) ==
    /\ args = a
    /\ main = MainStart
    /\ jobs = <<>>
    /\ results = <<>>
    /\ jobChan = [q |-> <<>>, closed |-> FALSE]
    /\ feeder = [pc |-> "none", i |-> 1]
    /\ workers = <<>>
    /\ wg = 0
    /\ stores = <<>>

\* The command line: the flags -locales, -themes, -areas, -jobs and -force,
\* and the CPUs of the machine.
NoArgs == [locales |-> <<>>, themes |-> <<>>, areas |-> <<>>, jobs |-> 0, cpus |-> 1,
           force |-> FALSE]

\* main: flag.Parse, numJobs and the three parseCSV calls.
ParseFlags ==
    /\ main.pc = "parse"
    /\ main' = [main EXCEPT
                  !.pc = "create",
                  !.numJobs = IF args.jobs <= 0 THEN args.cpus ELSE args.jobs,
                  !.lists = [locales |-> parseCSV(args.locales),
                             themes  |-> parseCSV(args.themes),
                             areas   |-> parseCSV(args.areas)]]
    /\ UNCHANGED <<args, jobs, results, jobChan, feeder, workers, wg, stores>>
    /\ UNCHANGED modeVars
    /\ UNCHANGED jobVars

\* deployStatic: createDeployJobs.
CreateJobs ==
    /\ main.pc = "create"
    /\ jobs' = createDeployJobs(main.lists.locales, main.lists.themes, main.lists.areas)
    /\ main' = [main EXCEPT !.pc = "make"]
    /\ UNCHANGED <<args, results, jobChan, feeder, workers, wg, stores>>
    /\ UNCHANGED modeVars
    /\ UNCHANGED jobVars

\* processJobs: make the results slice and the channel.
MakeResults ==
    /\ main.pc = "make"
    /\ results' = [i \in 1..Len(jobs) |-> ZeroResult]
    /\ jobChan' = [q |-> <<>>, closed |-> FALSE]
    /\ workers' = [w \in 1..main.numJobs |-> IdleWorker]
    /\ main' = [main EXCEPT !.pc = "spawn", !.i = 0]
    /\ UNCHANGED <<args, jobs, feeder, wg, stores>>
    /\ UNCHANGED modeVars
    /\ UNCHANGED jobVars

\* processJobs: wg.Add(1); go worker(...)
SpawnWorker ==
    /\ main.pc = "spawn"
    /\ main.i < main.numJobs
    /\ wg' = wg + 1
    /\ workers' = [workers EXCEPT ![main.i + 1].pc = "recv"]
    /\ main' = [main EXCEPT !.i = main.i + 1]
    /\ UNCHANGED <<args, jobs, results, jobChan, feeder, stores>>
    /\ UNCHANGED modeVars
    /\ UNCHANGED jobVars

\* processJobs: go func() { ... }() after the loop, then wg.Wait().
StartFeeder ==
    /\ main.pc = "spawn"
    /\ main.i >= main.numJobs
    /\ feeder' = [pc |-> "send", i |-> 1]
    /\ main' = [main EXCEPT !.pc = "wait"]
    /\ UNCHANGED <<args, jobs, results, jobChan, workers, wg, stores>>
    /\ UNCHANGED modeVars
    /\ UNCHANGED jobVars

\* The feeder: jobChan <- task, blocking while the buffer is full.
Send ==
    /\ feeder.pc = "send"
    /\ feeder.i <= Len(jobs)
    /\ Len(jobChan.q) < main.numJobs
    /\ jobChan' = [jobChan EXCEPT !.q = Append(jobChan.q, taskFor(jobs, feeder.i))]
    /\ feeder' = [feeder EXCEPT !.i = feeder.i + 1]
    /\ UNCHANGED <<args, main, jobs, results, workers, wg, stores>>
    /\ UNCHANGED modeVars
    /\ UNCHANGED jobVars

\* A feeder that ends without close(jobChan).
CloseLeftOut ==
    /\ feeder.pc = "send"
    /\ feeder.i > Len(jobs)
    /\ feeder' = [feeder EXCEPT !.pc = "done"]
    /\ UNCHANGED <<args, main, jobs, results, jobChan, workers, wg, stores>>
    /\ UNCHANGED modeVars
    /\ UNCHANGED jobVars

\* The feeder: close(jobChan) after the last task.
Close ==
    /\ feeder.pc = "send"
    /\ feeder.i > Len(jobs)
    /\ jobChan' = [jobChan EXCEPT !.closed = TRUE]
    /\ feeder' = [feeder EXCEPT !.pc = "done"]
    /\ UNCHANGED <<args, main, jobs, results, workers, wg, stores>>
    /\ UNCHANGED modeVars
    /\ UNCHANGED jobVars

\* A receive that leaves the task in the channel.
RecvLeavingTask(w) ==
    /\ workers[w].pc = "recv"
    /\ jobChan.q # <<>>
    /\ workers' = [workers EXCEPT ![w].pc = "deploy", ![w].task = Head(jobChan.q)]
    /\ UNCHANGED <<args, main, jobs, results, jobChan, feeder, wg, stores>>
    /\ UNCHANGED modeVars
    /\ UNCHANGED jobVars

\* A worker: task := <-jobChan
Recv(w) ==
    /\ workers[w].pc = "recv"
    /\ jobChan.q # <<>>
    /\ workers' = [workers EXCEPT ![w].pc = "deploy", ![w].task = Head(jobChan.q)]
    /\ jobChan' = [jobChan EXCEPT !.q = Tail(jobChan.q)]
    /\ UNCHANGED <<args, main, jobs, results, feeder, wg, stores>>
    /\ UNCHANGED modeVars
    /\ UNCHANGED jobVars

\* The worker's locals after deployTheme returned d, with the text of the
\* error.
Deployed(w, d, text) ==
    /\ fs' = d.fs
    /\ workers' = [workers EXCEPT ![w].pc = "store",
                                  ![w].fileCount = d.ret.count,
                                  ![w].err = d.ret.err,
                                  ![w].text = text,
                                  ![w].placed = PlacedBetween(fs, d.fs),
                                  ![w].log = d.log]

DeployedAs(w, d) ==
    \E text \in errorTexts(d.ret.err, workers[w].task.job, failedAt(d),
                           MkdirAll(fs, destDirOf(jobPaths(workers[w].task.job))).n) :
        Deployed(w, d, text)

\* A worker: fileCount, err := deployTheme(magentoRoot, task.job, version)
\* The call is one step: the job lists the pool is run on give every job a
\* destination directory of its own, so the calls of two workers touch no
\* common file.
Deploy(w) ==
    /\ workers[w].pc = "deploy"
    /\ DeployedAs(w, deployTheme(fs, src, jobPaths(workers[w].task.job)))
    /\ UNCHANGED <<src, job, dt, run, hist>>
    /\ UNCHANGED <<args, main, jobs, results, jobChan, feeder, wg, stores>>
    /\ UNCHANGED modeVars

\* The write of a result into its slot.
Stored(w, slot, result) ==
    /\ results' = [i \in DOMAIN results |-> IF i = slot THEN result ELSE results[i]]
    /\ stores' = Append(stores, [slot |-> slot, worker |-> w, job |-> result.Job,
                                 err |-> workers[w].err,
                                 placed |-> workers[w].placed,
                                 log |-> workers[w].log,
                                 result |-> result])
    /\ workers' = [workers EXCEPT ![w].pc = afterTask(result)]

\* A worker: task.results[task.resultIdx] = result
Store(w) ==
    /\ workers[w].pc = "store"
    /\ Stored(w, workers[w].task.resultIdx,
              resultOf(workers[w].task.job, workers[w].fileCount,
                       workers[w].err # NoError, workers[w].text))
    /\ UNCHANGED <<args, main, jobs, jobChan, feeder, wg>>
    /\ UNCHANGED modeVars
    /\ UNCHANGED jobVars

\* A worker: the channel is closed and empty (or the worker returns), and
\* the deferred wg.Done() runs.
Exit(w) ==
    /\ \/ workers[w].pc = "exit"
       \/ (workers[w].pc = "recv" /\ jobChan.q = <<>> /\ jobChan.closed)
    /\ workers' = [workers EXCEPT ![w].pc = "done"]
    /\ wg' = wg - 1
    /\ UNCHANGED <<args, main, jobs, results, jobChan, feeder, stores>>
    /\ UNCHANGED modeVars
    /\ UNCHANGED jobVars

\* processJobs: wg.Wait() returns, and processJobs returns results.
Wait ==
    /\ main.pc = "wait"
    /\ waitReturns(wg)
    /\ main' = [main EXCEPT !.pc = "sum"]
    /\ UNCHANGED <<args, jobs, results, jobChan, feeder, workers, wg, stores>>
    /\ UNCHANGED modeVars
    /\ UNCHANGED jobVars

\* deployStatic: totalFiles, and the version file if any files were deployed.
Aggregate ==
    /\ main.pc = "sum"
    /\ main' = [main EXCEPT !.pc = "print", !.totalFiles = totalOf(results)]
    /\ fs' = IF totalOf(results) > 0 THEN createDeploymentVersionFile(fs) ELSE fs
    /\ UNCHANGED <<src, job, dt, run, hist>>
    /\ UNCHANGED <<args, jobs, results, jobChan, feeder, workers, wg, stores>>
    /\ UNCHANGED modeVars

\* main: printResults(results, ...)
PrintResults ==
    /\ main.pc = "print"
    /\ main' = [main EXCEPT !.pc = "check", !.report = printResults(results)]
    /\ UNCHANGED <<args, jobs, results, jobChan, feeder, workers, wg, stores>>
    /\ UNCHANGED modeVars
    /\ UNCHANGED jobVars

\* main: os.Exit(1) if hasErrors, else the return from main.
ExitProcess ==
    /\ main.pc = "check"
    /\ main' = [main EXCEPT !.pc = "exited",
                            !.exit = IF hasErrors(results) THEN 1 ELSE 0]
    /\ UNCHANGED <<args, jobs, results, jobChan, feeder, workers, wg, stores>>
    /\ UNCHANGED modeVars
    /\ UNCHANGED jobVars

ParseNext ==
    \/ ParseFlags
    \/ CreateJobs

RunNext ==
    \/ ParseFlags
    \/ CreateJobs
    \/ MakeResults
    \/ SpawnWorker
    \/ StartFeeder
    \/ Send
    \/ Close
    \/ \E w \in DOMAIN workers : Recv(w)
    \/ \E w \in DOMAIN workers : Deploy(w)
    \/ \E w \in DOMAIN workers : Store(w)
    \/ \E w \in DOMAIN workers : Exit(w)
    \/ Wait
    \/ Aggregate
    \/ PrintResults
    \/ ExitProcess

----------------------------------------------------------------------------
(* Modes of deployment that are not part of main.go *)

\* The locale-level symlink mode is off and nothing is deferred.
NoReducer == [mode |-> "none", pc |-> "reduce", deferred |-> <<>>, links |-> {}]

\* No theme is being resolved.
NoResolver == [pc |-> "none"]

\* No FileWatcher was made.
NoWatcher == [pc |-> "none"]

\* No LessPreprocessor is at work.
NoLess == [pc |-> "none"]

OthersIdle == watcher = NoWatcher /\ less = NoLess

ModeIdle == reducer = NoReducer /\ resolver = NoResolver /\ OthersIdle

(* The locale-level symlink mode (SymlinkReducer) *)

\* The key of a SymlinkGroup: (theme, area).
groupOf(j) == <<j.Theme, j.Area>>

\* The reduction applies when the mode is enabled and more than one locale
\* is requested.
reducing(mode, locales) == mode = "locale" /\ Len(locales) > 1

\* The place of the first job of the group of job n: its locale is the
\* representative of the group.
firstOfGroup(js, n) ==
    CHOOSE m \in 1..n :
        /\ groupOf(js[m]) = groupOf(js[n])
        /\ \A k \in 1..(m - 1) : groupOf(js[k]) # groupOf(js[n])

RECURSIVE realFrom(_, _)
realFrom(js, n) ==
    IF n > Len(js) THEN <<>>
    ELSE (IF firstOfGroup(js, n) = n THEN <<js[n]>> ELSE <<>>) \o realFrom(js, n + 1)

\* A reduction that keeps every job as a real job.
realJobsAll(js) == js

\* The real jobs: the first-seen locale of every group.
realJobs(js) == realFrom(js, 1)

RECURSIVE deferredFrom(_, _)
deferredFrom(js, n) ==
    IF n > Len(js) THEN <<>>
    ELSE (IF firstOfGroup(js, n) = n THEN <<>>
          ELSE << [job |-> js[n], target |-> js[firstOfGroup(js, n)].Locale] >>)
         \o deferredFrom(js, n + 1)

\* The deferred locales, each with the representative locale of its group.
deferredJobs(js) == deferredFrom(js, 1)

\* The reduction of the job list, before any job is started.
Reduce ==
    /\ main.pc = "make"
    /\ reducer.pc = "reduce"
    /\ jobs' = IF reducing(reducer.mode, main.lists.locales) THEN realJobs(jobs)
               ELSE jobs
    /\ reducer' = [reducer EXCEPT
                     !.pc = "run",
                     !.deferred = IF reducing(reducer.mode, main.lists.locales)
                                  THEN deferredJobs(jobs) ELSE <<>>]
    /\ UNCHANGED <<args, main, results, jobChan, feeder, workers, wg, stores, resolver, watcher, less>>
    /\ UNCHANGED jobVars

\* The parallel phase starts on the reduced job list.
MakeResultsReduced == reducer.pc = "run" /\ MakeResults

\* The path from directory base to target, relative to base.
relativeTo(base, target) ==
    LET common == CHOOSE k \in 0..Len(base) :
                      /\ k <= Len(target)
                      /\ SubSeq(base, 1, k) = SubSeq(target, 1, k)
                      /\ (k < Len(base) /\ k < Len(target)) => base[k + 1] # target[k + 1]
    IN  [i \in 1..(Len(base) - common) |-> ".."] \o SubSeq(target, common + 1, Len(target))

\* The tree without the entry at p and everything below it.
removeAll(f, p) == [q \in {r \in DOMAIN f : ~IsPrefix(p, r)} |-> f[q]]

\* A link can be made at p: the directory it goes into exists.
symlinkOk(f, p) == p # <<>> /\ IsDir(f, Dir(p))

\* The tree after the entry at p was created, or replaced, as a symbolic
\* link with the relative target text.
symlinked(f, p, text) ==
    IF symlinkOk(f, p)
    THEN removeAll(f, p) @@ (p :> LinkEntry(Join(Dir(p), text)))
    ELSE f

\* The output directory of the representative locale of deferred entry d.
representativeDir(d) == destDirOf(jobPaths([d.job EXCEPT !.Locale = d.target]))

\* The result of the real job of the group of deferred entry d.
representativeResult(d) ==
    results[CHOOSE n \in DOMAIN jobs :
                jobs[n] = [d.job EXCEPT !.Locale = d.target]]

\* The DeployResult made up for deferred entry d: the file count of the
\* representative, marked as symlinked; a failure to make the link is
\* recorded on this result only.
synthesized(d, ok) ==
    [Job |-> d.job,
     FilesCount |-> representativeResult(d).FilesCount,
     Error |-> IF ok THEN <<>>
               ELSE <<"failed", " ", "to", " ", "create", " ", "symlink">>,
     Symlinked |-> TRUE,
     SymlinkTarget |-> d.target]

\* The deferred phase, after all real jobs are complete: one deferred locale
\* becomes a relative link to the output directory of its representative.
LinkDeferred ==
    /\ main.pc = "sum"
    /\ reducer.deferred # <<>>
    /\ fs' = symlinked(fs, destDirOf(jobPaths(Head(reducer.deferred).job)),
                       relativeTo(Dir(destDirOf(jobPaths(Head(reducer.deferred).job))),
                                  representativeDir(Head(reducer.deferred))))
    /\ results' = Append(results,
                     synthesized(Head(reducer.deferred),
                         symlinkOk(fs, destDirOf(jobPaths(Head(reducer.deferred).job)))))
    /\ reducer' = [reducer EXCEPT
                     !.deferred = Tail(reducer.deferred),
                     !.links = reducer.links \cup
                        { [path |-> destDirOf(jobPaths(Head(reducer.deferred).job)),
                           text |-> relativeTo(
                               Dir(destDirOf(jobPaths(Head(reducer.deferred).job))),
                               representativeDir(Head(reducer.deferred)))] :
                          x \in {y \in {TRUE} : symlinkOk(fs,
                                   destDirOf(jobPaths(Head(reducer.deferred).job)))} }]
    /\ UNCHANGED <<src, job, dt, run, hist>>
    /\ UNCHANGED <<args, main, jobs, jobChan, feeder, workers, wg, stores, resolver, watcher, less>>

\* The aggregation waits for the deferred phase.
AggregateLinked == reducer.deferred = <<>> /\ Aggregate

SymlinkNext ==
    \/ ParseFlags
    \/ CreateJobs
    \/ Reduce
    \/ MakeResultsReduced
    \/ SpawnWorker
    \/ StartFeeder
    \/ Send
    \/ Close
    \/ \E w \in DOMAIN workers : Recv(w)
    \/ \E w \in DOMAIN workers : Deploy(w)
    \/ \E w \in DOMAIN workers : Store(w)
    \/ \E w \in DOMAIN workers : Exit(w)
    \/ Wait
    \/ LinkDeferred
    \/ AggregateLinked
    \/ PrintResults
    \/ ExitProcess

(* Theme resolution and classification (ThemeAncestryResolver,
   ThemeClassifier) *)

\* most themes with a descriptor of their own in one registry
MaxThemes == 2

ThemeNames == <<"Vendor/A", "Vendor/B", "Vendor/C", "Vendor/D">>
Themes == {ThemeNames[i] : i \in 1..MaxThemes}

\* The root themes known as native-capable, and the themes of a registry.
NativeRoots == {"Hyva/default", "Hyva/reset"}
Known == Themes \cup {"Hyva/default"}

\* A descriptor without parent, and a parent that is in no root.
NoParent == ""
Unresolvable == "Vendor/Gone"

\* The themes with a location in area a: every theme of the registry under
\* frontend; under adminhtml all of them or none.
locatedIn(reg, a) ==
    IF a = "frontend" \/ reg.admin = "same" THEN Known ELSE {}

\* The theme has a location in the area (at one of the candidate roots).
resolveTheme(reg, name, a) == name \in locatedIn(reg, a)

\* parentThemeName of the theme's descriptor.
parentOf(reg, name) == IF name \in Themes THEN reg.parent[name] ELSE NoParent

Visited(chain) == {chain[i] : i \in DOMAIN chain}

\* A walk without the visited set.
stopsAfterUnguarded(reg, chain, a) ==
    \/ parentOf(reg, chain[Len(chain)]) = NoParent
    \/ ~resolveTheme(reg, parentOf(reg, chain[Len(chain)]), a)

\* The walk stops after the last theme of the chain: its parent is empty,
\* unresolvable, or already visited.
stopsAfter(reg, chain, a) ==
    \/ parentOf(reg, chain[Len(chain)]) = NoParent
    \/ ~resolveTheme(reg, parentOf(reg, chain[Len(chain)]), a)
    \/ parentOf(reg, chain[Len(chain)]) \in Visited(chain)

\* One iteration of the resolver's loop: the chain as it is when the walk
\* stops, else with the parent appended (child first).
extendChain(reg, chain, a) ==
    IF stopsAfter(reg, chain, a) THEN chain
    ELSE Append(chain, parentOf(reg, chain[Len(chain)]))

\* A link of the chain is native-capable: a known root theme, or a theme
\* with a marker file in its asset directory.
nativeLink(reg, name) == name \in NativeRoots \/ name \in reg.marker

\* The first positive result up the chain classifies the theme.
nativeChain(reg, chain) == \E i \in DOMAIN chain : nativeLink(reg, chain[i])

\* The classifier before its first area.
ResolverStart(reg, theme, areas) ==
    [pc |-> "area", reg |-> reg, theme |-> theme, areas |-> areas, todo |-> areas,
     area |-> "", chain |-> <<>>, chains |-> <<>>, native |-> FALSE,
     class |-> "", verdicts |-> <<>>]

ResolverStep(r) ==
    /\ resolver' = r
    /\ UNCHANGED <<reducer, watcher, less>>
    /\ UNCHANGED jobVars
    /\ UNCHANGED runVars

\* The next requested area (in any order): the theme is resolved in it, and
\* the walk starts from the theme itself when it has a location there.
PickArea ==
    /\ resolver.pc = "area"
    /\ \E a \in resolver.todo :
          ResolverStep(
              IF resolveTheme(resolver.reg, resolver.theme, a)
              THEN [resolver EXCEPT !.pc = "walk", !.area = a,
                                    !.chain = <<resolver.theme>>]
              ELSE [resolver EXCEPT !.todo = resolver.todo \ {a}])

\* One iteration of the walk up the ancestry chain.
ExtendChain ==
    /\ resolver.pc = "walk"
    /\ Len(resolver.chain) <= Cardinality(Known)
    /\ extendChain(resolver.reg, resolver.chain, resolver.area) # resolver.chain
    /\ ResolverStep([resolver EXCEPT
                       !.chain = extendChain(resolver.reg, resolver.chain,
                                             resolver.area)])

\* The walk has stopped: the chain built so far is classified.
EndChain ==
    /\ resolver.pc = "walk"
    /\ extendChain(resolver.reg, resolver.chain, resolver.area) = resolver.chain
    /\ ResolverStep([resolver EXCEPT
                       !.pc = "area",
                       !.todo = resolver.todo \ {resolver.area},
                       !.chains = Append(resolver.chains,
                                         [area |-> resolver.area,
                                          chain |-> resolver.chain]),
                       !.native = resolver.native
                                  \/ nativeChain(resolver.reg, resolver.chain)])

\* All requested areas are done: native-capable if it is in any area.
Classify ==
    /\ resolver.pc = "area"
    /\ resolver.todo = {}
    /\ ResolverStep([resolver EXCEPT
                       !.pc = "done",
                       !.class = IF resolver.native THEN "native" ELSE "delegated"])

\* The same theme is classified again over the same registry.
ClassifyAgain ==
    /\ resolver.pc = "done"
    /\ Len(resolver.verdicts) + 1 < MaxRuns
    /\ ResolverStep([ResolverStart(resolver.reg, resolver.theme, resolver.areas)
                        EXCEPT !.verdicts = Append(resolver.verdicts, resolver.class)])

ResolveNext ==
    \/ PickArea
    \/ ExtendChain
    \/ EndChain
    \/ Classify
    \/ ClassifyAgain

----------------------------------------------------------------------------
(* Calls of deployTheme on one job: the steps of the function as actions *)

\* The call in progress, as the frame the step operators work on.
Cur == [fs |-> fs, pc |-> dt.pc, fileCount |-> dt.fileCount, pkgIdx |-> dt.pkgIdx,
        log |-> dt.log, ret |-> dt.ret]

Locals(d) == [pc |-> d.pc, fileCount |-> d.fileCount, pkgIdx |-> d.pkgIdx,
              log |-> d.log, ret |-> d.ret]

Becomes(d) ==
    /\ fs' = d.fs
    /\ dt' = Locals(d)
    /\ UNCHANGED <<src, job, run, hist>>
    /\ UNCHANGED runVars
    /\ UNCHANGED modeVars

Start == dt.pc = "start" /\ Becomes(dtStart(Cur, job))

CopyTheme == dt.pc = "theme" /\ Becomes(dtTheme(Cur, src, job))

CopyLib == dt.pc = "lib" /\ Becomes(dtLib(Cur, src, job))

CopyPackage ==
    /\ dt.pc = "ext"
    /\ dt.pkgIdx <= Len(src.pkgs)
    /\ Becomes(dtPackage(Cur, src, job))

EndOfPackages ==
    /\ dt.pc = "ext"
    /\ dt.pkgIdx > Len(src.pkgs)
    /\ Becomes(dtPackage(Cur, src, job))

Finish == dt.pc = "end" /\ Becomes(dtFinish(Cur))

\* The call has returned: its tree and result are recorded, and the same job
\* is deployed again over the same sources.
Again ==
    /\ dt.pc = "done"
    /\ run < MaxRuns
    /\ hist' = Append(hist, [fs |-> fs, ret |-> dt.ret, log |-> dt.log])
    /\ run' = run + 1
    /\ dt' = Locals(Frame(fs))
    /\ UNCHANGED <<src, fs, job>>
    /\ UNCHANGED runVars
    /\ UNCHANGED modeVars

JobNext ==
    \/ Start
    \/ CopyTheme
    \/ CopyLib
    \/ CopyPackage
    \/ EndOfPackages
    \/ Finish
    \/ Again

----------------------------------------------------------------------------
(* Source trees and jobs the model is run on *)

RECURSIVE SubsetsUpTo(_, _)
\* The subsets of S with at most k elements.
SubsetsUpTo(S, k) ==
    IF k = 0 THEN {{}}
    ELSE LET T == SubsetsUpTo(S, k - 1)
         IN  T \cup {t \cup {x} : t \in T, x \in S}

CssApp == <<"css", "app.css">>
JsX == <<"js", "x.js">>

TheJob == [Locale |-> <<"en_US">>, Theme |-> <<"Vendor", "Hyva">>, Area |-> <<"frontend">>]

ParentWeb == <<"frontend", "Vendor", "Parent", "web">>

\* Places a source file can be at: a directory and a path below it.
Slot(tag, rel) == [tag |-> tag, rel |-> rel]

Slots ==
    {Slot(DesignTag(themeWebDirOf(TheJob)), r) : r \in {CssApp, JsX}}
    \cup {Slot(LibTag, r) : r \in {CssApp, JsX}}
    \cup {Slot(Tag("pkg", 1, 0, packageDirs(TheJob)[1]), r) : r \in {CssApp, JsX}}
    \cup {Slot(Tag("pkg", 1, 0, packageDirs(TheJob)[k]), CssApp) : k \in 2..4}
    \cup {Slot(Tag("pkg", 1, 1, subModuleDirs(TheJob)[k]), CssApp) : k \in 1..2}
    \cup {Slot(Tag("pkg", 2, 0, packageDirs(TheJob)[k]), CssApp) : k \in {1, 3}}

VendorModule == <<"Vendor_Module">>
MagentoEmail == <<"Magento_Email">>

Desc(etc, srcetc) == [etc |-> etc, srcetc |-> srcetc]

\* The module descriptors of package 1, of its src/module-* directory and of
\* package 2.
DescCases ==
    { << Desc(Xml(VendorModule), NoXml), Desc(Xml(<<"Sub_Module">>), NoXml),
         Desc(Xml(<<"Other_Module">>), NoXml) >>,
      << Desc(Xml(VendorModule), NoXml), Desc(NoXml, Xml(VendorModule)),
         Desc(NoXml, Xml(VendorModule)) >>,
      << Desc(NoXml, NoXml), Desc(BadXml, Xml(VendorModule)), Desc(NoXml, NoXml) >>,
      << Desc(Xml(MagentoEmail), NoXml), Desc(Xml(MagentoEmail), NoXml),
         Desc(Xml(VendorModule), NoXml) >>,
      << Desc(Xml(VendorModule), NoXml), Desc(NoXml, NoXml),
         Desc(Xml(MagentoEmail), NoXml) >> }

\* The theme's parent theme: its web directory provides css/app.css in every
\* tree.
ParentTheme ==
    (ParentWeb :> (CssApp :> SrcFile(DesignTag(ParentWeb), CssApp, "ok")))

\* The files of directory tag in a tree that holds the slots S; the file at
\* slot bad (if it is one of S) is read as io says.
FilesOf(S, tag, bad, io) ==
    [r \in {t.rel : t \in {u \in S : u.tag = tag}} |->
        SrcFile(tag, r, IF Slot(tag, r) = bad THEN io ELSE "ok")]

DirsOf(S, i, n, bad, io) ==
    [d \in {t.tag.d : t \in {u \in S : u.tag.g = "pkg" /\ u.tag.i = i /\ u.tag.s = n}} |->
        FilesOf(S, Tag("pkg", i, n, d), bad, io)]

Tree(S, descs, bad, io) ==
    [design |-> [d \in {t.tag.d : t \in {u \in S : u.tag.g = "design"}} |->
                    FilesOf(S, DesignTag(d), bad, io)] @@ ParentTheme,
     lib    |-> FilesOf(S, LibTag, bad, io),
     pkgs   |-> << [etc |-> descs[1].etc, srcetc |-> descs[1].srcetc,
                    dirs |-> DirsOf(S, 1, 0, bad, io),
                    subs |-> << [etc |-> descs[2].etc, srcetc |-> descs[2].srcetc,
                                 dirs |-> DirsOf(S, 1, 1, bad, io)] >>],
                   [etc |-> descs[3].etc, srcetc |-> descs[3].srcetc,
                    dirs |-> DirsOf(S, 2, 0, bad, io),
                    subs |-> <<>>] >>]

\* No file at all is read badly.
NoSlot == Slot(LibTag, <<>>)

JobInit(S, descs, bad, io, f, j) ==
    /\ src = Tree(S, descs, bad, io)
    /\ fs = f
    /\ job = j
    /\ dt = Locals(Frame(f))
    /\ run = 1
    /\ hist = << [fs |-> f, ret |-> Frame(f).ret, log |-> <<>>] >>
    /\ RunInit(NoArgs)
    /\ ModeIdle

\* Deployment into an empty pub/static: any source tree of at most MaxFiles
\* files, at most one of which is read with an error.
Init ==
    \E S \in SubsetsUpTo(Slots, MaxFiles), descs \in DescCases :
        \E bad \in S \cup {NoSlot}, io \in {"noopen", "partial"} :
            /\ bad = NoSlot => io = "noopen"
            /\ JobInit(S, descs, bad, io, <<>>, TheJob)

Spec == Init /\ [][JobNext]_vars

\* Deployment into a pub/static that already holds entries in the job's
\* destination: a regular file, a link to a file, a link whose target is
\* missing (in a directory that exists, or in one that does not).
OldBytes == [t |-> Tag("old", 0, 0, <<>>), r |-> <<>>]

PreDest == destDirOf(TheJob)

PreBase ==
    [p \in {SubSeq(PreDest \o <<"css">>, 1, i) : i \in 1..(Len(PreDest) + 1)} |-> DirEntry]

PreTrees ==
    { PreBase @@ (PreDest \o CssApp :> FileEntry(OldBytes, TRUE)),
      PreBase @@ (PreDest \o CssApp :> LinkEntry(PreDest \o <<"css", "real.css">>))
              @@ (PreDest \o <<"css", "real.css">> :> FileEntry(OldBytes, TRUE)),
      PreBase @@ (PreDest \o CssApp :> LinkEntry(PreDest \o <<"css", "gone.css">>)),
      PreBase @@ (PreDest \o CssApp :> LinkEntry(PreDest \o <<"gone", "gone.css">>)) }

PreSlots ==
    {Slot(DesignTag(themeWebDirOf(TheJob)), r) : r \in {CssApp, JsX}}
    \cup {Slot(LibTag, CssApp)}
    \cup {Slot(Tag("pkg", 1, 0, packageDirs(TheJob)[1]), CssApp)}

PreDescCases ==
    { << Desc(NoXml, NoXml), Desc(NoXml, NoXml), Desc(NoXml, NoXml) >>,
      << Desc(Xml(MagentoEmail), NoXml), Desc(NoXml, NoXml), Desc(NoXml, NoXml) >> }

InitPre ==
    \E S \in SubsetsUpTo(PreSlots, MaxFiles), descs \in PreDescCases, f \in PreTrees :
        \E bad \in S \cup {NoSlot}, io \in {"noopen", "partial"} :
            /\ bad = NoSlot => io = "noopen"
            /\ JobInit(S, descs, bad, io, f, TheJob)

SpecPre == InitPre /\ [][JobNext]_vars

\* Deployment of source trees with files a deployment may want to leave
\* out: dot files, .less sources, and files below node_modules, docs and
\* tailwind directories.  Every file is read without error.
SkipRels ==
    { <<".DS_Store">>, <<"css", ".DS_Store">>, <<"css", "a.less">>,
      <<"node_modules", "x.js">>, <<"js", "node_modules", "x.js">>,
      <<"docs", "x.js">>, <<"a", "docs", "x.js">>, <<"tailwind", "x.js">>,
      <<"a", "tailwind", "x.js">>, JsX }

SkipSlots ==
    {Slot(DesignTag(themeWebDirOf(TheJob)), r) : r \in SkipRels}
    \cup {Slot(LibTag, r) : r \in SkipRels}
    \cup {Slot(Tag("pkg", 1, 0, packageDirs(TheJob)[1]), r) : r \in SkipRels}

InitSkip ==
    \E S \in SubsetsUpTo(SkipSlots, MaxFiles), descs \in PreDescCases :
        JobInit(S, descs, NoSlot, "noopen", <<>>, TheJob)

SpecSkip == InitSkip /\ [][JobNext]_vars

\* Deployment of a theme that is in a vendor package (package 2 of the
\* tree, at the path getVendorThemePath names, with the theme's files in its
\* web directory), below app/design, or both.
VendorThemeTag == Tag("pkg", 2, 0, <<"web">>)

VendorSlots ==
    {Slot(DesignTag(themeWebDirOf(TheJob)), r) : r \in {CssApp, JsX}}
    \cup {Slot(LibTag, CssApp)}
    \cup {Slot(VendorThemeTag, r) : r \in {CssApp, JsX}}
    \cup {Slot(Tag("pkg", 1, 0, packageDirs(TheJob)[1]), CssApp)}

VendorTree(S, descs) ==
    [Tree(S, descs, NoSlot, "noopen") EXCEPT
        !.pkgs[2] = @ @@ [path |-> getVendorThemePath(TheJob.Area[1], TheJob.Theme)]]

InitVendor ==
    \E S \in SubsetsUpTo(VendorSlots, MaxFiles), descs \in PreDescCases :
        /\ src = VendorTree(S, descs)
        /\ fs = <<>>
        /\ job = TheJob
        /\ dt = Locals(Frame(<<>>))
        /\ run = 1
        /\ hist = << [fs |-> <<>>, ret |-> Frame(<<>>).ret, log |-> <<>>] >>
        /\ RunInit(NoArgs)
        /\ ModeIdle

SpecVendor == InitVendor /\ [][JobNext]_vars

\* Module names a descriptor can hold (<module name="..."/> is any text):
\* an ordinary one, one with a separator in it, "../de_DE" and
\* "../../../../../etc".
DescriptorNames ==
    { VendorModule, <<"a", "b">>, <<"..", "de_DE">>,
      <<"..", "..", "..", "..", "..", "etc">> }

\* Deployment into an empty pub/static of a tree whose first package has any
\* of the descriptor names.
InitEscape ==
    \E S \in SubsetsUpTo(Slots, MaxFiles), name \in DescriptorNames :
        JobInit(S, << Desc(Xml(name), NoXml), Desc(NoXml, Xml(name)),
                      Desc(Xml(VendorModule), NoXml) >>,
                NoSlot, "noopen", <<>>, TheJob)

SpecEscape == InitEscape /\ [][JobNext]_vars

\* Deployment of layers of up to MaxFiles files, one of which may be read
\* with an error, into an empty pub/static or into one where the job's
\* css/app.css is a link to its js/x.js, which does not exist.
OrderSlots ==
    {Slot(DesignTag(themeWebDirOf(TheJob)), r) : r \in {CssApp, JsX}}
    \cup {Slot(LibTag, r) : r \in {CssApp, JsX}}
    \cup {Slot(Tag("pkg", 1, 0, packageDirs(TheJob)[1]), r) : r \in {CssApp, JsX}}
    \cup {Slot(Tag("pkg", 1, 1, subModuleDirs(TheJob)[2]), r) : r \in {CssApp, JsX}}

AliasTree ==
    PreBase @@ (PreDest \o <<"js">> :> DirEntry)
            @@ (PreDest \o CssApp :> LinkEntry(PreDest \o JsX))

InitOrder ==
    \E S \in SubsetsUpTo(OrderSlots, MaxFiles), descs \in PreDescCases,
       f \in {<<>>, AliasTree} :
        \E bad \in S \cup {NoSlot}, io \in {"noopen", "partial"} :
            /\ bad = NoSlot => io = "noopen"
            /\ JobInit(S, descs, bad, io, f, TheJob)

SpecOrder == InitOrder /\ [][JobNext]_vars

----------------------------------------------------------------------------
(* Command lines the model is run on *)

\* longest flag value, in pieces
MaxFlagLen == 3
\* most workers (-jobs, or the CPUs of the machine)
MaxWorkers == 2

RECURSIVE TextsUpTo(_, _)
\* The strings of at most n pieces over the pieces A.
TextsUpTo(A, n) ==
    IF n = 0 THEN {<<>>}
    ELSE LET T == TextsUpTo(A, n - 1)
         IN  T \cup {Append(t, a) : t \in T, a \in A}

\* No call of deployTheme of its own: the variables of the job level rest.
JobIdle ==
    /\ job = TheJob
    /\ dt = Locals(Frame(<<>>))
    /\ run = 1
    /\ hist = <<>>

EmptyTree == Tree({}, CHOOSE d \in PreDescCases : TRUE, NoSlot, "noopen")

\* The job list of any -locales, -themes and -areas of at most MaxFlagLen
\* pieces.
InitCSV ==
    \E l \in TextsUpTo({"a", ",", " ", "/"}, MaxFlagLen),
       t \in TextsUpTo({"a", ",", "/"}, MaxFlagLen),
       a \in {<<"f">>, <<"f", ",", "f", "/">>} :
        /\ RunInit([locales |-> l, themes |-> t, areas |-> a, jobs |-> 0, cpus |-> 1,
                    force |-> FALSE])
        /\ src = EmptyTree
        /\ fs = <<>>
        /\ JobIdle
        /\ ModeIdle

SpecCSV == InitCSV /\ [][ParseNext]_vars

Hyva == <<"Vendor", "/", "Hyva">>
Missing == <<"Vendor", "/", "Missing">>
\* A theme whose name is the text of deployTheme's last error.
NotFoundNamed == <<"Vendor", "/">> \o NotFoundText

\* -locales and -themes
PoolLists ==
    { <<l, t>> : l \in {<<"en_US">>},
                 t \in { Hyva, Missing, Hyva \o <<",", " ">> \o Missing, SkippedText,
                         SkippedText \o <<",">> \o Hyva, NotFoundNamed, <<"Hyva">>,
                         <<>> } }
    \cup { <<l, t>> : l \in {<<"en_US", ",", "de_DE">>}, t \in {Hyva, Missing} }
    \cup { << <<"en_US", ",", "de_DE", ",", " ", "fr_FR">>, Hyva >> }

\* -jobs and the CPUs of the machine
PoolWorkers ==
    {<<n, 1>> : n \in 1..MaxWorkers} \cup {<<0, MaxWorkers>>, <<-1, 1>>}

ThemeCss == Slot(DesignTag(themeWebDirOf(TheJob)), CssApp)
LibCss == Slot(LibTag, CssApp)
LibJs == Slot(LibTag, JsX)
PkgJs == Slot(Tag("pkg", 1, 0, packageDirs(TheJob)[1]), JsX)

\* Source trees: the files, and the one read with an error.
PoolTrees ==
    { Tree(c[1], CHOOSE d \in PreDescCases : TRUE, c[2], c[3]) :
        c \in { <<{}, NoSlot, "noopen">>,
                <<{ThemeCss}, NoSlot, "noopen">>,
                <<{LibCss}, NoSlot, "noopen">>,
                <<{ThemeCss, LibJs}, LibJs, "noopen">>,
                <<{ThemeCss, PkgJs}, ThemeCss, "partial">>,
                <<{LibCss, PkgJs}, LibCss, "partial">> } }

\* pub/static: empty, or with a regular file where the area's directory
\* would be, or one where the directory of the theme named after the
\* "not found" error would be.
PoolDests ==
    { <<>>,
      (<<"frontend">> :> FileEntry(OldBytes, TRUE)),
      (<<"frontend">> :> DirEntry) @@ (<<"frontend", "Vendor">> :> DirEntry)
          @@ (<<"frontend", "Vendor", Str(NotFoundText)>> :> FileEntry(OldBytes, TRUE)) }

InitPool ==
    \E lt \in PoolLists, n \in PoolWorkers, s \in PoolTrees, f \in PoolDests :
        /\ RunInit([locales |-> lt[1], themes |-> lt[2], areas |-> <<"frontend">>,
                    jobs |-> n[1], cpus |-> n[2], force |-> FALSE])
        /\ src = s
        /\ fs = f
        /\ JobIdle
        /\ ModeIdle

SpecPool == InitPool /\ [][RunNext]_vars

\* Runs on job lists of no, one, two and three jobs, with and without a
\* job that fails, for every number of workers.
ReturnLists ==
    { << <<"en_US">>, <<>> >>,
      << <<"en_US">>, Hyva >>,
      << <<"en_US">>, Hyva \o <<",", " ">> \o Missing >>,
      << <<"en_US", ",", "de_DE", ",", " ", "fr_FR">>, Hyva >> }

ReturnTrees ==
    { Tree(c[1], CHOOSE d \in PreDescCases : TRUE, c[2], c[3]) :
        c \in { <<{ThemeCss}, NoSlot, "noopen">>,
                <<{ThemeCss, LibJs}, LibJs, "noopen">> } }

InitReturn ==
    \E lt \in ReturnLists, n \in PoolWorkers, s \in ReturnTrees :
        /\ RunInit([locales |-> lt[1], themes |-> lt[2], areas |-> <<"frontend">>,
                    jobs |-> n[1], cpus |-> n[2], force |-> FALSE])
        /\ src = s
        /\ fs = <<>>
        /\ JobIdle
        /\ ModeIdle

\* The steps of main, the feeder and the workers other than the calls of
\* deployTheme.
SchedulerSteps ==
    \/ ParseFlags
    \/ CreateJobs
    \/ MakeResults
    \/ SpawnWorker
    \/ StartFeeder
    \/ Send
    \/ Close
    \/ \E w \in DOMAIN workers : Recv(w)
    \/ \E w \in DOMAIN workers : Store(w)
    \/ \E w \in DOMAIN workers : Exit(w)
    \/ Wait
    \/ Aggregate
    \/ PrintResults
    \/ ExitProcess

\* Worker w is within a call of deployTheme.
InDeployTheme(w) == w \in DOMAIN workers /\ workers[w].pc = "deploy"

\* The Go scheduler lets a goroutine that can take a step take one, and
\* every call of deployTheme returns (the file system operations of every
\* job terminate).
SpecReturn ==
    /\ InitReturn
    /\ [][RunNext]_vars
    /\ WF_vars(SchedulerSteps)
    /\ \A w \in 1..MaxWorkers : []<>(~InDeployTheme(w))

\* Runs with and without -force, on a pub/static that is empty or already
\* holds an entry at <dest>/css/app.css, over sources read without error.
ForceTrees ==
    { Tree(S, CHOOSE d \in PreDescCases : TRUE, NoSlot, "noopen") :
        S \in { {ThemeCss}, {LibCss}, {ThemeCss, PkgJs} } }

ForceDests == { <<>>, PreBase @@ (PreDest \o CssApp :> FileEntry(OldBytes, TRUE)) }

InitForce ==
    \E force \in BOOLEAN, n \in PoolWorkers, s \in ForceTrees, f \in ForceDests,
       l \in {<<"en_US">>, <<"en_US", ",", "de_DE">>} :
        /\ RunInit([locales |-> l, themes |-> Hyva, areas |-> <<"frontend">>,
                    jobs |-> n[1], cpus |-> n[2], force |-> force])
        /\ src = s
        /\ fs = f
        /\ JobIdle
        /\ ModeIdle

SpecForce == InitForce /\ [][RunNext]_vars

\* Runs with and without the locale-level symlink mode, on a pub/static that
\* is empty or holds an earlier deployment of the locale de_DE.
SymlinkLists ==
    { << <<"en_US", ",", "de_DE", ",", " ", "fr_FR">>, Hyva >>,
      << <<"en_US", ",", "de_DE">>, Hyva \o <<",", " ">> \o Missing >>,
      << <<"en_US">>, Hyva >> }

DeDest == destDirOf([TheJob EXCEPT !.Locale = <<"de_DE">>])

OldDeployment ==
    [p \in {SubSeq(DeDest \o <<"css">>, 1, i) : i \in 1..(Len(DeDest) + 1)} |-> DirEntry]
    @@ (DeDest \o CssApp :> FileEntry(OldBytes, TRUE))

InitSymlink ==
    \E mode \in {"none", "locale"}, lt \in SymlinkLists, n \in PoolWorkers,
       s \in ForceTrees, f \in {<<>>, OldDeployment} :
        /\ RunInit([locales |-> lt[1], themes |-> lt[2], areas |-> <<"frontend">>,
                    jobs |-> n[1], cpus |-> n[2], force |-> FALSE])
        /\ src = s
        /\ fs = f
        /\ JobIdle
        /\ reducer = [NoReducer EXCEPT !.mode = mode]
        /\ resolver = NoResolver
        /\ OthersIdle

SpecSymlink == InitSymlink /\ [][SymlinkNext]_vars

\* The classification of theme Vendor/A over any registry: every theme has
\* a parent among the known themes, none, or one that cannot be resolved; at
\* most one theme has a marker file.
Registries ==
    { [parent |-> p, marker |-> m, admin |-> ad] :
        p \in [Themes -> Known \cup {NoParent, Unresolvable}],
        m \in SubsetsUpTo(Themes, 1),
        ad \in {"same", "none"} }

InitResolve ==
    \E reg \in Registries, areas \in {{"frontend"}, {"frontend", "adminhtml"}} :
        /\ RunInit(NoArgs)
        /\ src = EmptyTree
        /\ fs = <<>>
        /\ JobIdle
        /\ reducer = NoReducer
        /\ resolver = ResolverStart(reg, ThemeNames[1], areas)
        /\ OthersIdle

\* The classifier is sequential code that keeps running until it returns.
SpecResolve == InitResolve /\ [][ResolveNext]_vars /\ WF_vars(ResolveNext)

----------------------------------------------------------------------------
(* The file watcher (watcher.go, in src/README.md) *)

\* The goroutines that call Stop.
StopCallers == {"first", "second"}
\* Changes made to the watched directory.
MaxChanges == 2

\* A modification time: whole seconds and the part of a second after them.
Stamp(sec, sub) == [sec |-> sec, sub |-> sub]

\* os.FileInfo of a regular file: ModTime() and Size().
Info(t, size) == [t |-> t, size |-> size]

\* time.Time.Unix(): the whole seconds.
Unix(t) == t.sec

\* fmt.Sprintf("%d:%d", info.ModTime().Unix(), info.Size())
hashOf(info) == <<Unix(info.t), ":", info.size>>

\* filepath.Base of a relative path of a file.
Base(p) == p[Len(p)]

\* strings.HasPrefix(name, "."), for the names of the watched directory.
HasDotPrefix(name) == name \in {".hidden", ".git"}

\* The walk of updateHashes and of hasChanges over the regular files of the
\* directory: the hash of every file whose base name has no "." in front.
walkHashes(dir) ==
    [p \in {q \in DOMAIN dir : ~HasDotPrefix(Base(q))} |-> hashOf(dir[p])]

\* updateHashes: w.fileHashes = newHashes
updateHashes(dir) == walkHashes(dir)

\* The first loop of hasChanges: "Check for new or modified files".
newOrModified(hashes, current) ==
    \E p \in DOMAIN current : p \notin DOMAIN hashes \/ hashes[p] # current[p]

\* The second loop: "Check for deleted files".
deletedFiles(hashes, current) == \E p \in DOMAIN hashes : p \notin DOMAIN current

\* hasChanges without its second loop.
hasChangesNewOnly(hashes, dir) ==
    [ret        |-> newOrModified(hashes, walkHashes(dir)),
     fileHashes |-> IF newOrModified(hashes, walkHashes(dir))
                    THEN walkHashes(dir) ELSE hashes]

\* hasChanges on the stored hashes: the value returned and w.fileHashes
\* after the call.
hasChanges(hashes, dir) ==
    [ret        |-> \/ newOrModified(hashes, walkHashes(dir))
                    \/ deletedFiles(hashes, walkHashes(dir)),
     fileHashes |-> IF \/ newOrModified(hashes, walkHashes(dir))
                       \/ deletedFiles(hashes, walkHashes(dir))
                    THEN walkHashes(dir) ELSE hashes]

\* The job the watcher deploys.
WatchJob == [Locale |-> <<"nl_NL">>, Theme |-> <<"Vendor", "Hyva">>,
             Area |-> <<"frontend">>]

\* No call of hasChanges yet.
NoCall == [called |-> FALSE, ret |-> FALSE, clean |-> FALSE, dir |-> <<>>,
           taken |-> <<>>, before |-> <<>>, after |-> <<>>]

\* NewFileWatcher: the ticker runs, the done channel has no buffer, the map
\* of hashes is empty.  dir is the watched directory; taken, last, clean and
\* pending are history: the directory as it was when the stored hashes were
\* taken, the last call of hasChanges, whether the directory is as that call
\* saw it, and whether a change made after Start returned has not yet led
\* to a deployment.
NewFileWatcher(dir) ==
    [pc |-> "new", started |-> FALSE, tick |-> FALSE, dir |-> dir,
     fileHashes |-> <<>>, stops |-> [s \in StopCallers |-> "idle"],
     changes |-> 0, taken |-> <<>>, last |-> NoCall, clean |-> FALSE,
     pending |-> FALSE, deployed |-> FALSE]

WatchFrame ==
    /\ UNCHANGED <<src, job, dt, run, hist>>
    /\ UNCHANGED runVars
    /\ UNCHANGED <<reducer, resolver, less>>

\* Start: the goroutine is spawned and Start returns.
WatchStart ==
    /\ watcher.pc = "new"
    /\ watcher' = [watcher EXCEPT !.pc = "init", !.started = TRUE]
    /\ UNCHANGED fs
    /\ WatchFrame

\* The goroutine: "Initial hash of all files".
WatchInitialHash ==
    /\ watcher.pc = "init"
    /\ watcher' = [watcher EXCEPT !.pc = "select",
                                  !.fileHashes = updateHashes(watcher.dir),
                                  !.taken = watcher.dir]
    /\ UNCHANGED fs
    /\ WatchFrame

\* The ticker, running since NewFileWatcher: its channel holds one tick, a
\* tick that finds it full is dropped.
WatchTick ==
    /\ watcher.pc # "none"
    /\ ~watcher.tick
    /\ watcher' = [watcher EXCEPT !.tick = TRUE]
    /\ UNCHANGED fs
    /\ WatchFrame

\* The tick is received and hasChanges has returned r.
Ticked(r) ==
    watcher' = [watcher EXCEPT
                  !.pc = IF r.ret THEN "deploy" ELSE "select",
                  !.tick = FALSE,
                  !.fileHashes = r.fileHashes,
                  !.taken = IF r.ret THEN watcher.dir ELSE @,
                  !.last = [called |-> TRUE, ret |-> r.ret, clean |-> watcher.clean,
                            dir |-> watcher.dir, taken |-> watcher.taken,
                            before |-> watcher.fileHashes, after |-> r.fileHashes],
                  !.clean = TRUE,
                  !.pending = IF r.ret THEN FALSE ELSE @]

\* case <-w.tickChan: if w.hasChanges() { ... }
WatchOnTick ==
    /\ watcher.pc = "select"
    /\ watcher.tick
    /\ Ticked(hasChanges(watcher.fileHashes, watcher.dir))
    /\ UNCHANGED fs
    /\ WatchFrame

\* "Changes detected. Running deployment...": deployTheme on the fixed job,
\* its results printed.
WatchDeploy ==
    /\ watcher.pc = "deploy"
    /\ fs' = deployTheme(fs, src, WatchJob).fs
    /\ watcher' = [watcher EXCEPT !.pc = "select", !.deployed = TRUE]
    /\ WatchFrame

\* Stop is called: w.done <- true blocks until the goroutine receives.
WatchStop(s) ==
    /\ watcher.pc # "none"
    /\ watcher.started
    /\ watcher.stops[s] = "idle"
    /\ watcher' = [watcher EXCEPT !.stops[s] = "sending"]
    /\ UNCHANGED fs
    /\ WatchFrame

\* case <-w.done: return.  The sender's Stop returns.
WatchOnDone(s) ==
    /\ watcher.pc = "select"
    /\ watcher.stops[s] = "sending"
    /\ watcher' = [watcher EXCEPT !.pc = "returned", !.stops[s] = "returned"]
    /\ UNCHANGED fs
    /\ WatchFrame

\* The directory with the file at p created, modified or (no info) deleted.
Changed(dir, p, to) ==
    IF to = <<>> THEN [q \in DOMAIN dir \ {p} |-> dir[q]]
    ELSE [q \in DOMAIN dir \cup {p} |-> IF q = p THEN to[1] ELSE dir[q]]

\* Somebody creates, modifies or deletes a file of the watched directory,
\* after Start has returned.
WatchChange(p, to) ==
    /\ watcher.pc # "none"
    /\ watcher.started
    /\ watcher.changes < MaxChanges
    /\ Changed(watcher.dir, p, to) # watcher.dir
    /\ watcher' = [watcher EXCEPT !.dir = Changed(watcher.dir, p, to),
                                  !.changes = @ + 1,
                                  !.clean = FALSE,
                                  !.pending = TRUE]
    /\ UNCHANGED fs
    /\ WatchFrame

\* The files the watched directory can hold, and what os.FileInfo can say
\* of one.
WatchPaths == { <<"a.css">>, <<".hidden">>, <<".git", "config">> }
WatchInfos ==
    { Info(Stamp(0, 0), 1), Info(Stamp(0, 1), 1), Info(Stamp(1, 0), 1),
      Info(Stamp(0, 0), 2) }

WatchGoroutine == WatchInitialHash \/ WatchOnTick \/ (\E s \in StopCallers : WatchOnDone(s))

WatchNext ==
    \/ WatchStart
    \/ WatchInitialHash
    \/ WatchTick
    \/ WatchOnTick
    \/ WatchDeploy
    \/ \E s \in StopCallers : WatchStop(s)
    \/ \E s \in StopCallers : WatchOnDone(s)
    \/ \E p \in WatchPaths, i \in WatchInfos : WatchChange(p, <<i>>)
    \/ \E p \in WatchPaths : WatchChange(p, <<>>)

\* The directories the watcher is made on.
WatchDirs ==
    { <<>>,
      (<<"a.css">> :> Info(Stamp(0, 0), 1)),
      (<<"a.css">> :> Info(Stamp(0, 0), 1)) @@ (<<".hidden">> :> Info(Stamp(0, 0), 1)) }

InitWatch ==
    \E dir \in WatchDirs :
        /\ watcher = NewFileWatcher(dir)
        /\ src = Tree({ThemeCss}, CHOOSE d \in PreDescCases : TRUE, NoSlot, "noopen")
        /\ fs = <<>>
        /\ JobIdle
        /\ RunInit(NoArgs)
        /\ reducer = NoReducer
        /\ resolver = NoResolver
        /\ less = NoLess

SpecWatch == InitWatch /\ [][WatchNext]_vars

\* The ticker keeps ticking and the goroutine keeps running; a select with
\* several ready cases picks one at random, so none is passed over forever;
\* a call of deployTheme returns.
SpecWatchFair ==
    /\ SpecWatch
    /\ WF_vars(WatchStart)
    /\ WF_vars(WatchInitialHash)
    /\ WF_vars(WatchTick)
    /\ SF_vars(WatchOnTick)
    /\ \A s \in StopCallers : SF_vars(WatchOnDone(s))
    /\ []<>(watcher.pc # "deploy")

----------------------------------------------------------------------------
(* LESS staging and compilation (less_preprocessor.go and less.go, in      *)
(* src/main.go)                                                            *)

\* filepath.Ext, for the file names of the staging sources.
Ext(name) ==
    CASE name \in {"email.less", "email-inline.less", "email-fonts.less", "a.less"}
            -> ".less"
      [] name = "A.LESS" -> ".LESS"
      [] name = "app.css" -> ".css"
      [] name = "x.js" -> ".js"
      [] OTHER -> ""

\* strings.ToLower(filepath.Ext(path))
lowerExt(name) == IF Ext(name) = ".LESS" THEN ".less" ELSE ToLower(Ext(name))

\* A file of a staging source: how reading it goes, and whether it holds a
\* @magento_import directive.
LessFile(io, imp) == [io |-> io, imp |-> imp]

\* What a file of the staging directory holds: the bytes of file r of
\* source directory k (all of them or a part), with the @magento_import
\* directives expanded or not; by is history, the call that put them there.
Staged(k, r, full, imp, by) ==
    [k |-> k, r |-> r, full |-> full, imp |-> imp, exp |-> FALSE, by |-> by]

\* A copy that leaves a file that is already in the staging directory alone.
copyFileLessKeep(stg, file, k, rel, by) ==
    IF file.io = "noopen" THEN [files |-> stg, err |-> TRUE]
    ELSE IF rel \in DOMAIN stg THEN [files |-> stg, err |-> FALSE]
    ELSE [files |-> [q \in DOMAIN stg \cup {rel} |->
                        IF q = rel THEN Staged(k, rel, file.io = "ok", file.imp, by)
                        ELSE stg[q]],
          err   |-> file.io # "ok"]

\* copyFileLess(src, dst): os.Open, os.Create, io.Copy into the staging
\* files stg.
copyFileLess(stg, file, k, rel, by) ==
    IF file.io = "noopen" THEN [files |-> stg, err |-> TRUE]
    ELSE [files |-> [q \in DOMAIN stg \cup {rel} |->
                        IF q = rel THEN Staged(k, rel, file.io = "ok", file.imp, by)
                        ELSE stg[q]],
          err   |-> file.io # "ok"]

\* The walk callback of copyLessFiles for one regular file.
copyLessOne(st, files, k, rel, by) ==
    IF lowerExt(Base(rel)) \notin {".less", ".css"} THEN st
    ELSE copyFileLess(st.files, files[rel], k, rel, by)

RECURSIVE copyLessWalk(_, _, _, _, _)
\* filepath.Walk of copyLessFiles: it ends at the first error the callback
\* returns, the error of copyFileLess.
copyLessWalk(st, files, todo, k, by) ==
    IF todo = {} \/ st.err THEN st
    ELSE copyLessWalk(copyLessOne(st, files, k, WalkFirst(todo), by),
                      files, todo \ {WalkFirst(todo)}, k, by)

\* copyLessFiles(src, dst) into the staging files stg.
copyLessFiles(stg, files, k, by) ==
    copyLessWalk([files |-> stg, err |-> FALSE], files, DOMAIN files, k, by)

\* "Source locations to copy from (in priority order - later overrides
\* earlier)"
lessSources(area, theme) ==
    << <<"lib", "web">>,
       <<"vendor", "mage-os", "magento2-base", "lib", "web">>,
       <<"vendor", "mage-os", "theme-frontend-blank", "web">>,
       <<"vendor", "mage-os", "theme-frontend-luma", "web">>,
       <<"vendor", "hyva-themes", "magento2-email-module", "src", "view">>
           \o area \o <<"web">>,
       <<"app", "design">> \o area \o theme \o <<"web">> >>

RECURSIVE stageFrom(_, _, _, _, _)
\* The loop of stageSourceFiles from source n on: a source that does not
\* exist is passed over, the error of copyLessFiles is only printed.
stageFrom(stg, tree, sources, n, by) ==
    IF n > Len(sources) THEN stg
    ELSE IF sources[n] \notin DOMAIN tree THEN stageFrom(stg, tree, sources, n + 1, by)
    ELSE stageFrom(copyLessFiles(stg, tree[sources[n]], sources[n], by).files,
                   tree, sources, n + 1, by)

\* stageSourceFiles(area, theme): the staging files after it, and its error.
stageSourceFiles(stg, tree, area, theme, by) ==
    IF Len(theme) # 2 THEN [files |-> stg, err |-> "invalid theme format"]
    ELSE [files |-> stageFrom(stg, tree, lessSources(area, theme), 1, by),
          err   |-> NoError]

\* strings.HasSuffix(path, ".less")
HasLessSuffix(name) == Ext(name) = ".less"

\* processMagentoImports: every .less file of the staging directory whose
\* text changes when its @magento_import directives are replaced is written
\* back.  No source is staged under a <Vendor>_<Module> directory, so every
\* directive becomes the "no matches" comment.
processMagentoImports(stg) ==
    [q \in DOMAIN stg |->
        IF HasLessSuffix(Base(q)) /\ stg[q].imp THEN [stg[q] EXCEPT !.exp = TRUE]
        ELSE stg[q]]

\* "Email LESS files to compile"
emailFiles == <<"email.less", "email-inline.less", "email-fonts.less">>

\* filepath.Join(stagingDir, "css", lessFileName), below the staging
\* directory.
emailSource(name) == <<"css", name>>

\* The script compileLessFile writes to <root>/.less-compile-tmp.php: it
\* names the LESS file and the CSS file; by is history, the call that
\* wrote it.
Script(name, dest, by) == [name |-> name, dest |-> dest, by |-> by]

\* A call of PreprocessAndCompile(destDir, area, theme, locale): its
\* position and locals; present, seen, tried, failed, foreign and clobbered
\* are history: the email files in the staging directory when
\* CompileEmailCSS was called, those its loop came to, those
\* compileLessFile was called for, those it returned an
\* error for, whether php ran for this call on a
\* script or a LESS file that another call wrote, and whether this call
\* removed or overwrote the staging directory or the script of a call that
\* had not finished.
LessCall(j) ==
    [pc |-> "start", job |-> j, dest |-> destDirOf(j), i |-> 1, err |-> NoError,
     ret |-> "none", present |-> {}, seen |-> <<>>, tried |-> <<>>, failed |-> <<>>,
     foreign |-> FALSE,
     clobbered |-> FALSE]

\* The state before any call: the source directories, whether php and
\* less.php are installed, how the compiler takes each email file, no
\* staging directory, no script, nothing compiled.
LessStart(tree, php, parse, js) ==
    [pc |-> "run", tree |-> tree, php |-> php, parse |-> parse,
     staging |-> [exists |-> FALSE, files |-> <<>>],
     script |-> <<>>, out |-> <<>>,
     calls |-> [c \in DOMAIN js |-> LessCall(js[c])]]

LessFrame ==
    /\ UNCHANGED jobVars
    /\ UNCHANGED runVars
    /\ UNCHANGED <<reducer, resolver, watcher>>

\* Call c is between the creation of its staging directory and its return.
LessActive(c) ==
    less.calls[c].pc \in {"stage", "imports", "compiler", "email", "write", "exec",
                          "remove", "verify", "cleanup"}

\* Another call than c is active and the staging directory exists.
OthersStaging(c) ==
    less.staging.exists /\ \E d \in DOMAIN less.calls : d # c /\ LessActive(d)

\* os.RemoveAll(stagingDir); os.MkdirAll(stagingDir, 0755); defer
\* os.RemoveAll(stagingDir); lp.stagingDir = stagingDir
LessMakeStaging(c) ==
    /\ less.pc = "run"
    /\ less.calls[c].pc = "start"
    /\ less' = [less EXCEPT
                  !.staging = [exists |-> TRUE, files |-> <<>>],
                  !.calls[c].pc = "stage",
                  !.calls[c].clobbered = @ \/ OthersStaging(c)]
    /\ LessFrame

\* The call leaves with error e through the deferred os.RemoveAll.
LessLeave(c, e) == [less.calls[c] EXCEPT !.pc = "cleanup", !.err = e]

\* "Stage all LESS source files"
LessStage(c) ==
    /\ less.pc = "run"
    /\ less.calls[c].pc = "stage"
    /\ LET r == stageSourceFiles(less.staging.files, less.tree,
                                 less.calls[c].job.Area, less.calls[c].job.Theme, c)
       IN  less' = [less EXCEPT
                      !.staging = [exists |-> less.staging.exists \/ r.files # <<>>,
                                   files  |-> r.files],
                      !.calls[c] = IF r.err # NoError
                                   THEN LessLeave(c, "failed to stage source files")
                                   ELSE [@ EXCEPT !.pc = "imports"]]
    /\ LessFrame

\* "Process @magento_import directives": the walk passes over every error,
\* also that of a staging directory that is gone.
LessImports(c) ==
    /\ less.pc = "run"
    /\ less.calls[c].pc = "imports"
    /\ less' = [less EXCEPT
                  !.staging.files = processMagentoImports(@),
                  !.calls[c].pc = "compiler"]
    /\ LessFrame

\* NewLessCompiler: php in PATH and vendor/wikimedia/less.php installed, or
\* "LESS compiler not available".
LessCompilerMade(c) ==
    /\ less.pc = "run"
    /\ less.calls[c].pc = "compiler"
    /\ less' = [less EXCEPT
                  !.calls[c] =
                     IF less.php
                     THEN [@ EXCEPT !.pc = "email",
                                    !.present = {emailFiles[i] : i \in
                                        {k \in DOMAIN emailFiles :
                                            emailSource(emailFiles[k])
                                                \in DOMAIN less.staging.files}}]
                     ELSE LessLeave(c, "LESS compiler not available")]
    /\ LessFrame

\* The email file the loop of CompileEmailCSS is at.
emailFile(c) == emailFiles[less.calls[c].i]

\* The next round of the loop, or its end; CompileEmailCSS returns nil.
emailNext(call) == [call EXCEPT !.pc = "email", !.i = @ + 1]

\* The loop is over: "return nil", and PreprocessAndCompile returns nil
\* through the deferred os.RemoveAll.
LessEmailsDone(c) ==
    /\ less.pc = "run"
    /\ less.calls[c].pc = "email"
    /\ less.calls[c].i > Len(emailFiles)
    /\ less' = [less EXCEPT !.calls[c].pc = "cleanup"]
    /\ LessFrame

\* One round of the loop up to the call of compileLessFile: os.Stat of the
\* source in the staging directory, "not found" and continue, or
\* os.MkdirAll of <destDir>/css and the call.
LessEmail(c) ==
    /\ less.pc = "run"
    /\ less.calls[c].pc = "email"
    /\ less.calls[c].i <= Len(emailFiles)
    /\ less' = [less EXCEPT
                  !.calls[c] =
                     IF less.staging.exists
                        /\ emailSource(emailFile(c)) \in DOMAIN less.staging.files
                     THEN [@ EXCEPT !.pc = "write", !.seen = Append(@, emailFile(c)),
                                    !.tried = Append(@, emailFile(c))]
                     ELSE emailNext([@ EXCEPT !.seen = Append(@, emailFile(c))])]
    /\ LessFrame

\* compileLessFile: os.WriteFile(tmpFileName, phpScript)
LessWriteScript(c) ==
    /\ less.pc = "run"
    /\ less.calls[c].pc = "write"
    /\ less' = [less EXCEPT
                  !.script = << Script(emailFile(c), less.calls[c].dest, c) >>,
                  !.calls[c].pc = "exec",
                  !.calls[c].clobbered = @ \/ (less.script # <<>> /\ less.script[1].by # c)]
    /\ LessFrame

\* What php does with the script s on the staging files: the LESS file is
\* parsed and the CSS written to the file the script names, or php exits
\* with status 1.
phpOk(s, staging, parse) ==
    /\ staging.exists
    /\ emailSource(s.name) \in DOMAIN staging.files
    /\ staging.files[emailSource(s.name)].full
    /\ parse[s.name] # "error"

phpOutput(s, staging, parse) ==
    [from |-> staging.files[emailSource(s.name)], empty |-> parse[s.name] = "empty",
     script |-> s.by]

\* The compiled file <dest>/css/<name>.css is named by its destination and
\* the LESS file it comes from.
cssPath(dest, name) == <<dest, name>>

\* exec.Command(lc.phpPath, tmpFileName).CombinedOutput(): php runs the
\* script that is in the file now.
LessExec(c) ==
    /\ less.pc = "run"
    /\ less.calls[c].pc = "exec"
    /\ LET ran == less.script # <<>> /\ phpOk(less.script[1], less.staging, less.parse)
           s   == less.script[1]
       IN  less' = [less EXCEPT
                      !.out = IF ran
                              THEN (cssPath(s.dest, s.name)
                                       :> phpOutput(s, less.staging, less.parse)) @@ @
                              ELSE @,
                      !.calls[c].pc = "remove",
                      !.calls[c].err = IF ran THEN NoError ELSE "PHP compilation failed",
                      !.calls[c].foreign =
                          @ \/ (less.script # <<>> /\
                                  (s.by # c \/
                                   (ran /\ less.staging.files[emailSource(s.name)].by # c)))]
    /\ LessFrame

\* "Clean up temp file after execution": os.Remove(tmpFileName)
LessRemoveScript(c) ==
    /\ less.pc = "run"
    /\ less.calls[c].pc = "remove"
    /\ less' = [less EXCEPT
                  !.script = <<>>,
                  !.calls[c].pc = "verify",
                  !.calls[c].clobbered = @ \/ (less.script # <<>> /\ less.script[1].by # c)]
    /\ LessFrame

\* The end of compileLessFile: the error of php, or "Verify output file was
\* created and has content".
compileError(call, out, name) ==
    IF call.err # NoError THEN call.err
    ELSE IF cssPath(call.dest, name) \notin DOMAIN out THEN "output file not created"
    ELSE IF out[cssPath(call.dest, name)].empty THEN "output file is empty"
    ELSE NoError

\* CompileEmailCSS that gives up at the first file that fails.
afterCompileStop(call, e, name) ==
    IF e # NoError
    THEN [call EXCEPT !.pc = "cleanup", !.err = "failed to compile email CSS",
                      !.failed = Append(@, name)]
    ELSE emailNext([call EXCEPT !.err = NoError])

\* CompileEmailCSS after compileLessFile returned e for the file: "Failed
\* to compile" and continue, or "Compiled"; the loop goes on.
afterCompile(call, e, name) ==
    emailNext([call EXCEPT !.err = NoError,
                           !.failed = IF e # NoError THEN Append(@, name) ELSE @])

LessVerify(c) ==
    /\ less.pc = "run"
    /\ less.calls[c].pc = "verify"
    /\ less' = [less EXCEPT
                  !.calls[c] = afterCompile(@, compileError(@, less.out, emailFile(c)),
                                            emailFile(c))]
    /\ LessFrame

\* The deferred os.RemoveAll(stagingDir), and the return.
LessCleanup(c) ==
    /\ less.pc = "run"
    /\ less.calls[c].pc = "cleanup"
    /\ less' = [less EXCEPT
                  !.staging = [exists |-> FALSE, files |-> <<>>],
                  !.calls[c].pc = "returned",
                  !.calls[c].ret = less.calls[c].err,
                  !.calls[c].clobbered = @ \/ OthersStaging(c)]
    /\ LessFrame

LessNext ==
    \/ \E c \in DOMAIN less.calls : LessMakeStaging(c)
    \/ \E c \in DOMAIN less.calls : LessStage(c)
    \/ \E c \in DOMAIN less.calls : LessImports(c)
    \/ \E c \in DOMAIN less.calls : LessCompilerMade(c)
    \/ \E c \in DOMAIN less.calls : LessEmail(c)
    \/ \E c \in DOMAIN less.calls : LessEmailsDone(c)
    \/ \E c \in DOMAIN less.calls : LessWriteScript(c)
    \/ \E c \in DOMAIN less.calls : LessExec(c)
    \/ \E c \in DOMAIN less.calls : LessRemoveScript(c)
    \/ \E c \in DOMAIN less.calls : LessVerify(c)
    \/ \E c \in DOMAIN less.calls : LessCleanup(c)

\* The jobs PreprocessAndCompile is called for.
LessJob == TheJob
OtherLessJob == [TheJob EXCEPT !.Theme = <<"Vendor", "Other">>]

\* Places a file of a staging source can be at: the n-th source of the job
\* and a path below it.
LessSlot(n, rel) == [dir |-> lessSources(LessJob.Area, LessJob.Theme)[n], rel |-> rel]

LessSlots ==
    { LessSlot(n, <<"css", name>>) :
        n \in {1, 4, 5, 6}, name \in {"email.less", "email-inline.less", "app.css"} }
    \cup { LessSlot(6, <<"js", "x.js">>), LessSlot(6, <<"css", "A.LESS">>),
           LessSlot(3, <<"css", "email.less">>),
           LessSlot(2, <<"css", "email-fonts.less">>) }

\* The library has js/x.js in every tree.
LibraryJs == LessSlot(1, <<"js", "x.js">>)

\* The source directories that hold the slots S and the library's js/x.js;
\* the file at slot bad (if it is one of S) is read as io says; email.less
\* holds a @magento_import directive.
LessTree(S, bad, io) ==
    [d \in {t.dir : t \in S \cup {LibraryJs}} |->
        [r \in {t.rel : t \in {u \in S \cup {LibraryJs} : u.dir = d}} |->
            LessFile(IF [dir |-> d, rel |-> r] = bad THEN io ELSE "ok",
                     Base(r) = "email.less")]]

NoLessSlot == [dir |-> <<>>, rel |-> <<>>]

\* How the compiler takes the email files: all compile, email.less has an
\* error, or email-inline.less compiles to nothing.
Parses ==
    { [n \in {emailFiles[i] : i \in DOMAIN emailFiles} |-> "ok"],
      [n \in {emailFiles[i] : i \in DOMAIN emailFiles} |->
          IF n = "email.less" THEN "error" ELSE "ok"],
      [n \in {emailFiles[i] : i \in DOMAIN emailFiles} |->
          IF n = "email-inline.less" THEN "empty" ELSE "ok"] }

LessIdle ==
    /\ src = EmptyTree
    /\ fs = <<>>
    /\ JobIdle
    /\ RunInit(NoArgs)
    /\ reducer = NoReducer
    /\ resolver = NoResolver
    /\ watcher = NoWatcher

\* One call of PreprocessAndCompile, on any source directories of at most
\* MaxFiles files, at most one of which is read with an error.
InitLess ==
    \E S \in SubsetsUpTo(LessSlots, MaxFiles), parse \in Parses, php \in BOOLEAN :
        \E bad \in S \cup {NoLessSlot}, io \in {"noopen", "partial"} :
            /\ bad = NoLessSlot => io = "noopen"
            /\ ~php => parse = CHOOSE p \in Parses : \A n \in DOMAIN p : p[n] = "ok"
            /\ less = LessStart(LessTree(S, bad, io), php, parse, <<LessJob>>)
            /\ LessIdle

SpecLess == InitLess /\ [][LessNext]_vars

\* Source directories for two calls at once: the email files in the
\* library, or in the theme of the first job.
PairTrees ==
    { LessTree({LessSlot(1, <<"css", "email.less">>)}, NoLessSlot, "noopen"),
      LessTree({LessSlot(1, <<"css", "email.less">>),
                LessSlot(6, <<"css", "email-inline.less">>)}, NoLessSlot, "noopen") }

\* Two calls of PreprocessAndCompile on the same root, for two jobs.
InitLessPair ==
    \E tree \in PairTrees :
        /\ less = LessStart(tree, TRUE, CHOOSE p \in Parses : \A n \in DOMAIN p : p[n] = "ok",
                            <<LessJob, OtherLessJob>>)
        /\ LessIdle

SpecLessPair == InitLessPair /\ [][LessNext]_vars

----------------------------------------------------------------------------
(* The layers of a job, as the claims speak of them *)

\* The tree the current call of deployTheme started on.
StartFs == hist[run].fs

\* The files of source directory tag.
FilesAt(tag) ==
    CASE tag.g = "design" -> src.design[tag.d]
      [] tag.g = "lib" -> src.lib
      [] tag.g = "pkg" /\ tag.s = 0 -> src.pkgs[tag.i].dirs[tag.d]
      [] OTHER -> src.pkgs[tag.i].subs[tag.s].dirs[tag.d]

\* The namespace prefix the files of source directory tag are placed under.
PrefixAt(tag) ==
    CASE tag.g \in {"design", "lib"} -> <<>>
      [] tag.g = "pkg" /\ tag.s = 0 ->
            IF getModuleName(src.pkgs[tag.i]) = MagentoEmail THEN <<>>
            ELSE getModuleName(src.pkgs[tag.i])
      [] OTHER -> getModuleName(src.pkgs[tag.i].subs[tag.s])

\* The layers of the job: the theme's web directory, the library, and the
\* view directories of every package and of its src/module-* directories.
LayerTags ==
    {DesignTag(d) : d \in {themeWebDirOf(job)} \cap DOMAIN src.design}
    \cup {t \in {LibTag} : DOMAIN src.lib # {}}
    \cup UNION {{Tag("pkg", i, 0, d) : d \in DOMAIN src.pkgs[i].dirs}
                : i \in 1..Len(src.pkgs)}
    \cup UNION {UNION {{Tag("pkg", i, n, d) : d \in DOMAIN src.pkgs[i].subs[n].dirs}
                       : n \in 1..Len(src.pkgs[i].subs)}
                : i \in 1..Len(src.pkgs)}

\* Position of a view directory within its package: area-specific view
\* assets come before base view assets.
ViewRank(d) ==
    CASE d = <<"view">> \o job.Area \o <<"web">> -> 1
      [] d = <<"src", "view">> \o job.Area \o <<"web">> -> 2
      [] d = <<"view", "base", "web">> -> 3
      [] OTHER -> 4

\* The fixed order of the layers: (1) theme web directory, (2) shared
\* library, (3) extension packages, one after the other.
LayerBefore(a, b) ==
    CASE a.g = "design" -> b.g # "design"
      [] a.g = "lib" -> b.g = "pkg"
      [] OTHER -> /\ b.g = "pkg"
                  /\ \/ a.i < b.i
                     \/ (a.i = b.i /\ a.s < b.s)
                     \/ (a.i = b.i /\ a.s = b.s /\ ViewRank(a.d) < ViewRank(b.d))

\* The destination paths layer tag offers: its files that are not excluded.
Offers(tag) ==
    {Join(destDirOf(job), PrefixAt(tag) \o rel) :
        rel \in {r \in DOMAIN FilesAt(tag) : ~shouldSkipFile(r)}}

\* The layers offering destination path d.
Offering(d) == {t \in LayerTags : d \in Offers(t)}

\* The earliest layer offering d.
Earliest(d) == CHOOSE t \in Offering(d) : \A u \in Offering(d) \ {t} : LayerBefore(t, u)

\* How the copy of layer tag ended in the current call: "ok", "err", or
\* "none" when the layer was not copied (not yet, or left out).
Ended(tag) ==
    IF \E k \in 1..Len(dt.log) : dt.log[k].tag = tag /\ dt.log[k].err THEN "err"
    ELSE IF \E k \in 1..Len(dt.log) : dt.log[k].tag = tag THEN "ok"
    ELSE "none"

\* The files under the job's destination.
DestFiles == {d \in DOMAIN fs : fs[d].k = "file" /\ IsPrefix(destDirOf(job), d)}

----------------------------------------------------------------------------
(* C1: layer order and first-writer-wins *)

\* C1 as stated: in a run on an empty destination, every file at the
\* destination is the one from the earliest layer, in the fixed order, that
\* offers its path.
C1_EarliestLayerWins ==
    run = 1 => \A d \in DestFiles : fs[d].c.t = Earliest(d)

\* Layer u was left out: it was not copied because the copy of an earlier
\* directory of its package (or of its src/module-* directory) failed.
LeftOut(u) ==
    /\ Ended(u) = "none"
    /\ \E k \in 1..Len(dt.log) :
          /\ dt.log[k].err
          /\ dt.log[k].tag.g = "pkg"
          /\ dt.log[k].tag.i = u.i
          /\ dt.log[k].tag.s \in {0, u.s}
          /\ LayerBefore(dt.log[k].tag, u)

\* A file at the destination is from a layer offering its path, and every
\* earlier layer offering the path failed or was left out after a failure;
\* while no copy has failed it is the file of the earliest layer; every path
\* a layer placed without error holds that layer's file.
C1_Holder ==
    run = 1 =>
        /\ \A d \in DestFiles :
              /\ fs[d].c.t \in Offering(d)
              /\ \A u \in Offering(d) :
                    LayerBefore(u, fs[d].c.t) => Ended(u) = "err" \/ LeftOut(u)
              /\ (\A k \in 1..Len(dt.log) : ~dt.log[k].err) => fs[d].c.t = Earliest(d)
        /\ \A k \in 1..Len(dt.log) : \A d \in dt.log[k].made :
              d \in DestFiles /\ fs[d] = FileEntry([t |-> dt.log[k].tag, r |-> fs[d].c.r], TRUE)

\* A later layer never replaces a file: an entry of the tree is never changed
\* or removed.
C1_Kept == \A d \in DOMAIN fs : d \in DOMAIN fs' /\ fs'[d] = fs[d]

\* C1, amended: the layers are applied in the fixed order and the first layer
\* to write a path wins; the file left is the one from the earliest layer
\* offering the path unless that layer's copy failed (or the layer was left
\* out after a failure in its package), and no file is ever replaced.
C1_FirstWriterWins == [](C1_Holder) /\ [][C1_Kept]_vars

\* C1 witness: a finished first run in which two layers that both ended
\* without error offer a path, and the path holds the earlier layer's file.
C1_Witness ==
    /\ run = 1
    /\ dt.pc = "done"
    /\ \E d \in DestFiles : \E u \in Offering(d) :
          /\ u # Earliest(d)
          /\ Ended(u) = "ok"
          /\ Ended(Earliest(d)) = "ok"
          /\ fs[d].c.t = Earliest(d)

----------------------------------------------------------------------------
(* C2: the child theme's css/app.css *)

ChildCss == DesignTag(themeWebDirOf(job))
DestCss == Join(destDirOf(job), CssApp)

\* The job's theme and its parent theme both provide css/app.css.
C2_BothProvide ==
    /\ themeWebDirOf(job) \in DOMAIN src.design
    /\ CssApp \in DOMAIN src.design[themeWebDirOf(job)]
    /\ ParentWeb \in DOMAIN src.design
    /\ CssApp \in DOMAIN src.design[ParentWeb]

----------------------------------------------------------------------------
(* C3: an entry that already exists at the destination path *)

\* C3 as stated: an entry (regular file or symbolic link, also one whose
\* target is missing) that was at a destination path when the call started
\* is left as it was, nothing is copied for it and it is not counted.
C3_ExistingEntryLeftAlone ==
    \A d \in DOMAIN StartFs :
        StartFs[d].k \in {"file", "link"} =>
            /\ d \in DOMAIN fs /\ fs[d] = StartFs[d]
            /\ \A k \in 1..Len(dt.log) : d \notin dt.log[k].made
            /\ StartFs[d].k = "link" =>
                  (StartFs[d].to \in DOMAIN fs => StartFs[d].to \in DOMAIN StartFs)

----------------------------------------------------------------------------
(* C4: running the same job twice *)

\* C4 as stated: a second run over unchanged sources places no file at a
\* path that existed after the first run and leaves the tree as the first
\* run left it.
C4_SecondRunChangesNothing ==
    run >= 2 =>
        /\ fs = StartFs
        /\ \A k \in 1..Len(dt.log) : dt.log[k].made \cap DOMAIN StartFs = {}

----------------------------------------------------------------------------
(* C5: the destinations of the jobs of one run *)

\* The jobs that get as far as writing: their theme name has two parts.
Writers == {i \in 1..Len(jobs) : Len(jobPaths(jobs[i]).Theme) = 2}

\* C5 as stated: for every job list createDeployJobs builds from lists
\* parseCSV returned, two distinct jobs have distinct destination
\* directories pub/static/<area>/<theme>/<locale>.
C5_DistinctDestinations ==
    main.pc = "make" =>
        \A i \in Writers : \A k \in Writers :
            i # k => destDirOf(jobPaths(jobs[i])) # destDirOf(jobPaths(jobs[k]))

----------------------------------------------------------------------------
(* C6: one result slot per job *)

\* processJobs has returned.
Returned == main.pc \in {"sum", "print", "check", "exited"}

\* The results slice has one slot per job; a write goes to the slot of the
\* job the writing worker processed; no slot is written twice; and after
\* processJobs returned, results[i].Job is jobs[i].
C6_Slots ==
    /\ main.pc \notin {"parse", "create", "make"} => Len(results) = Len(jobs)
    /\ \A k \in 1..Len(stores) :
          /\ stores[k].slot \in 1..Len(jobs)
          /\ stores[k].job = jobs[stores[k].slot]
          /\ results[stores[k].slot].Job = stores[k].job
          /\ \A m \in 1..Len(stores) : m # k => stores[m].slot # stores[k].slot
    /\ Returned => \A i \in 1..Len(jobs) : results[i].Job = jobs[i]

\* A slot changes only when the worker holding the task of that slot writes
\* its result.
C6_OwnSlotOnly ==
    DOMAIN results' = DOMAIN results =>
        \A i \in DOMAIN results :
            results'[i] # results[i] =>
                \E w \in DOMAIN workers :
                    /\ workers[w].pc = "store"
                    /\ workers'[w].pc # "store"
                    /\ workers[w].task.resultIdx = i
                    /\ workers[w].task.job = jobs[i]

\* C6: each job has exactly one result, in its own slot, written once by the
\* worker that processed the job.
C6_OneResultPerJob == [](C6_Slots) /\ [][C6_OwnSlotOnly]_vars

\* C6 witness: processJobs returned after two workers each wrote a slot.
C6_Witness ==
    /\ Returned
    /\ Len(jobs) >= 2
    /\ \E k \in 1..Len(stores) : \E m \in 1..Len(stores) :
          stores[k].worker # stores[m].worker

----------------------------------------------------------------------------
(* C7: the barrier between the workers and the aggregation *)

AllWorkersDone == \A w \in DOMAIN workers : workers[w].pc = "done"
AllResultsWritten == \A i \in 1..Len(jobs) : \E k \in 1..Len(stores) : stores[k].slot = i

\* Once processJobs has returned every worker has finished and every job's
\* result is written.
C7_ReturnedAfterAll == Returned => AllWorkersDone /\ AllResultsWritten

\* totalFiles and the version file are written only after processJobs
\* returned, when no worker is running.
C7_AggregationAfter ==
    (\/ main'.totalFiles # main.totalFiles
     \/ (VersionFile \in DOMAIN fs' /\ VersionFile \notin DOMAIN fs))
    => Returned /\ AllWorkersDone /\ AllResultsWritten

\* C7: processJobs returns only after every worker finished and every
\* result was written; the aggregation and the version file come after.
C7_Barrier == [](C7_ReturnedAfterAll) /\ [][C7_AggregationAfter]_vars

\* C7 witness: a run of several jobs on several workers has written the
\* version file.
C7_Witness ==
    /\ main.pc = "exited"
    /\ Len(jobs) >= 2
    /\ main.numJobs >= 2
    /\ main.totalFiles > 0
    /\ VersionFile \in DOMAIN fs

----------------------------------------------------------------------------
(* C8: an error in one job and its sibling jobs *)

\* Job i was processed by a worker.
Processed(i) == \E k \in 1..Len(stores) : stores[k].slot = i /\ stores[k].job = jobs[i]

\* The line of the report for slot i: the job with its file count, or the
\* error text (which starts with the job).
Reported(i) ==
    /\ i \in DOMAIN main.report.lines
    /\ IF results[i].Error = <<>>
       THEN main.report.lines[i] =
                [ok |-> TRUE, job |-> jobs[i], files |-> results[i].FilesCount,
                 error |-> <<>>]
       ELSE /\ main.report.lines[i].error = results[i].Error
            /\ IsPrefix(jobs[i].Theme \o <<"/">> \o jobs[i].Area, results[i].Error)

\* C8: whatever jobs failed, every job has been processed when processJobs
\* returns, and every job is in the report printed from the results.
C8_SiblingsProcessed ==
    /\ Returned => \A i \in 1..Len(jobs) : Processed(i) /\ results[i].Job = jobs[i]
    /\ main.pc \in {"check", "exited"} => \A i \in 1..Len(jobs) : Reported(i)

\* C8 witness: a job failed, and a job processed after it placed files.
C8_Witness ==
    /\ main.pc = "exited"
    /\ \E k \in 1..Len(stores) : \E m \in 1..Len(stores) :
          /\ k < m
          /\ results[stores[k].slot].Error # <<>>
          /\ results[stores[m].slot].Error = <<>>
          /\ results[stores[m].slot].FilesCount > 0

----------------------------------------------------------------------------
(* C9: the exit status *)

\* C9 as stated: the process exits with status 1 exactly when deployTheme
\* returned, for some job, an error other than "theme directory not found".
C9_ExitOneIffError ==
    main.pc = "exited" =>
        (main.exit = 1 <=>
            \E k \in 1..Len(stores) :
                stores[k].err \notin {NoError, "theme directory not found"})

----------------------------------------------------------------------------
(* C10: a job whose theme does not exist *)

\* The theme of job j is in no theme root: there is no web directory for it
\* under app/design (the only root deployTheme reads).
ThemeMissing(j) ==
    /\ Len(jobPaths(j).Theme) = 2
    /\ themeWebDirOf(jobPaths(j)) \notin DOMAIN src.design

\* C10 as stated: the result of a job whose theme is missing carries no
\* error and no files, so that it neither adds to the total nor makes the
\* process fail.
C10_MissingThemeSkipped ==
    \A k \in 1..Len(stores) :
        ThemeMissing(stores[k].job) =>
            /\ results[stores[k].slot].Error = <<>>
            /\ results[stores[k].slot].FilesCount = 0

----------------------------------------------------------------------------
(* C11 *)

\* The calls of deployTheme that got past the last layer: they returned from
\* the check of fileCount at the end of the function.
AllLayersProcessed(k) == stores[k].err \in {NoError, "theme directory not found"}

\* C11: a job that has processed all layers and placed no file has a result
\* with an empty error and a file count of 0: it counts as skipped (theme
\* not found), not as failed.
C11_ZeroFilesSkipped ==
    \A k \in DOMAIN stores :
        (AllLayersProcessed(k) /\ stores[k].placed = {}) =>
            /\ stores[k].err = "theme directory not found"
            /\ stores[k].result.Error = <<>>
            /\ stores[k].result.FilesCount = 0
            /\ results[stores[k].slot] = stores[k].result

\* A job of a theme without any source has been through all layers, and the
\* run has come to its exit.
C11_Witness ==
    /\ main.pc = "exited"
    /\ \E k \in DOMAIN stores :
          /\ AllLayersProcessed(k)
          /\ stores[k].placed = {}
          /\ stores[k].job.Theme = Missing

----------------------------------------------------------------------------
(* C12 *)

\* view/{area}/web of package i, as a layer of the job.
AreaViewTag(i) == Tag("pkg", i, 0, packageDirs(job)[1])

\* The module descriptor of package p (etc/module.xml, or src/etc/module.xml
\* when there is no etc/module.xml) names the module.
NamedBy(p, name) == p.etc = Xml(name) \/ (p.etc = NoXml /\ p.srcetc = Xml(name))

\* <dest>/Vendor_Module/js/x.js
ModulePath == Join(destDirOf(job), VendorModule \o JsX)

\* Package i is named Vendor_Module by its descriptor and provides
\* view/{area}/web/js/x.js; <dest>/Vendor_Module/js/x.js was free when the
\* call started and no layer before the package's offers it; the package's
\* directory has been copied without error.
C12_Case(i) ==
    /\ NamedBy(src.pkgs[i], VendorModule)
    /\ AreaViewTag(i).d \in DOMAIN src.pkgs[i].dirs
    /\ JsX \in DOMAIN src.pkgs[i].dirs[AreaViewTag(i).d]
    /\ ModulePath \notin DOMAIN StartFs
    /\ Earliest(ModulePath) = AreaViewTag(i)
    /\ Ended(AreaViewTag(i)) = "ok"

----------------------------------------------------------------------------
(* C13 *)

\* File names that start with a dot, and file names that end in .less.
DotNames == {".DS_Store"}
LessNames == {"a.less"}

\* The path names a dot file or a .less file, or has a node_modules segment.
Excluded(d) ==
    \/ d[Len(d)] \in DotNames \cup LessNames
    \/ \E i \in 1..Len(d) : d[i] = "node_modules"

\* C13: the destination tree holds no file named .DS_Store (or with another
\* name that starts with a dot), no .less file, and no file with a
\* node_modules segment in its path.
C13_NoExcludedFile == \A d \in DestFiles : ~Excluded(d)

----------------------------------------------------------------------------
(* C14 *)

\* createDeployJobs has returned the job list of the run.
JobsCreated == main.pc \notin {"parse", "create"}

\* The place of combination (l, t, a) in a list of all combinations of
\* nT themes and nA areas.
PlaceOf(l, t, a, nT, nA) == ((l - 1) * nT + (t - 1)) * nA + a

\* C14: the job list is the cartesian product of the requested locales,
\* themes and areas: |locales| x |themes| x |areas| jobs, one for every
\* combination (locale, theme, area), none missing and none added.
C14_CartesianProduct ==
    JobsCreated =>
        /\ Len(jobs) = Len(main.lists.locales) * Len(main.lists.themes)
                          * Len(main.lists.areas)
        /\ \A l \in DOMAIN main.lists.locales, t \in DOMAIN main.lists.themes,
              a \in DOMAIN main.lists.areas :
              jobs[PlaceOf(l, t, a, Len(main.lists.themes), Len(main.lists.areas))]
                  = DeployJob(main.lists.locales[l], main.lists.themes[t],
                              main.lists.areas[a])
        /\ \A n \in DOMAIN jobs :
              \E l \in DOMAIN main.lists.locales, t \in DOMAIN main.lists.themes,
                 a \in DOMAIN main.lists.areas :
                 n = PlaceOf(l, t, a, Len(main.lists.themes), Len(main.lists.areas))

\* A job list of two locales, two themes and two areas.
C14_Witness ==
    /\ JobsCreated
    /\ Len(main.lists.locales) = 2
    /\ Len(main.lists.themes) = 2
    /\ Len(main.lists.areas) = 2
    /\ main.lists.locales[1] # main.lists.locales[2]
    /\ main.lists.themes[1] # main.lists.themes[2]
    /\ Len(jobs) = 8

----------------------------------------------------------------------------
(* C15 *)

\* deployStatic is past the write of the version file.
Aggregated == main.pc \in {"print", "check", "exited"}

\* pub/static/deployed_version.txt holds the version of this run.
MarkerWritten ==
    VersionFile \in DOMAIN fs /\ fs[VersionFile] = FileEntry(VersionBytes, TRUE)

\* A job of the run has placed a (complete) file.
SomeJobPlaced ==
    \E k \in DOMAIN stores : \E p \in stores[k].placed : p \in DOMAIN fs /\ fs[p].full

\* C15: after a run the version file has been written with the version of
\* the run if and only if a job of the run placed a file; a run that placed
\* nothing leaves the file as it was.
C15_MarkerIffPlaced == Aggregated => (MarkerWritten <=> SomeJobPlaced)

----------------------------------------------------------------------------
(* C16 *)

\* The call behind store k copied the library and the copy failed.
LibFailed(k) ==
    \E n \in DOMAIN stores[k].log :
        stores[k].log[n].tag = LibTag /\ stores[k].log[n].err

\* The call behind store k went on to the extension packages.
PackagesCopied(k) ==
    \E n \in DOMAIN stores[k].log : stores[k].log[n].tag.g = "pkg"

\* C16: when the library exists and its copy fails, the job is aborted: no
\* extension package is processed and the result of the job carries an
\* error.
C16_LibFailureAborts ==
    \A k \in DOMAIN stores :
        LibFailed(k) =>
            /\ ~PackagesCopied(k)
            /\ stores[k].err = "failed to copy library files"
            /\ stores[k].result.Error # <<>>

----------------------------------------------------------------------------
(* C17 *)

\* The copy of the library failed in the current call.
LibEndedInError == LibTag \in LayerTags /\ Ended(LibTag) = "err"

\* The errors of deployTheme that make no failed job: none, and the one the
\* worker marks as skipped.
NoFailure == {NoError, "theme directory not found"}

\* C17: an error in the theme's own directory or in a directory of an
\* extension package does not abort the job: the layers after it are still
\* processed and the job ends without an error because of it.
C17_OtherLayerErrorSkipped ==
    (dt.pc = "done" /\ ~LibEndedInError) =>
        \A n \in DOMAIN dt.log :
            (dt.log[n].err /\ dt.log[n].tag.g # "lib") =>
                /\ dt.ret.err \in NoFailure
                /\ \A u \in LayerTags :
                      LayerBefore(dt.log[n].tag, u) => Ended(u) # "none"

----------------------------------------------------------------------------
(* C18 *)

\* A source of <dest>/css/app.css for the job (en_US, Vendor/Hyva,
\* frontend): the theme's own file, else the library's.
CssSources ==
    IF themeWebDirOf(TheJob) \in DOMAIN src.design
       /\ CssApp \in DOMAIN src.design[themeWebDirOf(TheJob)]
    THEN {src.design[themeWebDirOf(TheJob)][CssApp]}
    ELSE IF CssApp \in DOMAIN src.lib THEN {src.lib[CssApp]} ELSE {}

\* C18: with -force every source file is copied even when a file already
\* exists at its destination: after the run the destination holds the
\* content of the source.
C18_ForceReplaces ==
    (args.force /\ main.pc = "exited") =>
        \A file \in CssSources :
            /\ PreDest \o CssApp \in DOMAIN fs
            /\ fs[PreDest \o CssApp] = FileEntry(file.c, TRUE)

----------------------------------------------------------------------------
(* C19 *)

\* Locales en_US, de_DE and fr_FR, one theme and one area, in locale-level
\* symlink mode.
C19_Scenario ==
    /\ reducer.mode = "locale"
    /\ main.lists.locales = << <<"en_US">>, <<"de_DE">>, <<"fr_FR">> >>
    /\ Len(main.lists.themes) = 1
    /\ Len(main.lists.areas) = 1

\* The output directory of locale l for the one theme and area.
C19_Dir(l) ==
    destDirOf(jobPaths(DeployJob(l, main.lists.themes[1], main.lists.areas[1])))

\* C19: in that scenario exactly one real job runs, for en_US; de_DE and
\* fr_FR each get a result marked symlinked, with target en_US and the file
\* count of the en_US job, and their output directories are relative links
\* that resolve to the en_US directory.
C19_LocaleSymlinks ==
    (C19_Scenario /\ Aggregated) =>
        /\ Len(stores) = 1
        /\ stores[1].job = DeployJob(<<"en_US">>, main.lists.themes[1], main.lists.areas[1])
        /\ Len(results) = 3
        /\ results[1] = stores[1].result
        /\ \A i \in 2..3 :
              /\ results[i].Job.Locale = main.lists.locales[i]
              /\ results[i].Symlinked
              /\ results[i].SymlinkTarget = <<"en_US">>
              /\ results[i].FilesCount = results[1].FilesCount
              /\ C19_Dir(main.lists.locales[i]) \in DOMAIN fs
              /\ fs[C19_Dir(main.lists.locales[i])].k = "link"
              /\ Resolve(fs, C19_Dir(main.lists.locales[i])) = C19_Dir(<<"en_US">>)
              /\ \E l \in reducer.links :
                    /\ l.path = C19_Dir(main.lists.locales[i])
                    /\ l.text = <<"en_US">>

\* The scenario at its end, with files placed by the en_US job and an
\* earlier de_DE deployment replaced by the link.
C19_Witness ==
    /\ C19_Scenario
    /\ main.pc = "exited"
    /\ results[1].FilesCount > 0
    /\ fs[C19_Dir(<<"de_DE">>)].k = "link"
    /\ C19_Dir(<<"de_DE">>) \o CssApp \notin DOMAIN fs

----------------------------------------------------------------------------
(* C20 *)

\* A chain holds no theme twice, starts at the theme itself and goes from
\* every theme to its parent.
ChainOk(chain) ==
    /\ \A i, j \in DOMAIN chain : chain[i] = chain[j] => i = j
    /\ chain # <<>> => chain[1] = resolver.theme
    /\ \A i \in 2..Len(chain) : chain[i] = parentOf(resolver.reg, chain[i - 1])

\* Every theme is visited at most once, and a walk that has ended went on
\* up to the first parent that is empty, unresolvable or already visited.
C20_VisitedOnce ==
    resolver.pc # "none" =>
        /\ ChainOk(resolver.chain)
        /\ \A n \in DOMAIN resolver.chains :
              /\ ChainOk(resolver.chains[n].chain)
              /\ stopsAfter(resolver.reg, resolver.chains[n].chain,
                            resolver.chains[n].area)

\* The classification is the same on every run.
C20_SameVerdict ==
    resolver.pc = "done" =>
        \A n \in DOMAIN resolver.verdicts : resolver.verdicts[n] = resolver.class

\* The theme's ancestry has a cycle: its parent's parent is the theme.
C20_Cycle ==
    /\ resolver.pc # "none"
    /\ parentOf(resolver.reg, resolver.theme) \in Themes \ {resolver.theme}
    /\ parentOf(resolver.reg, parentOf(resolver.reg, resolver.theme)) = resolver.theme

\* C20: resolving and classifying a theme terminates also when its ancestry
\* chain has a cycle: the walk stops at the first theme already visited,
\* visits every theme at most once, and gives the same classification on
\* every run.
C20_CycleGuarded ==
    /\ [](C20_VisitedOnce)
    /\ [](C20_SameVerdict)
    /\ <>[](resolver.pc = "done")

\* A theme with a cycle in its ancestry has been classified a second time,
\* and the walk went once round the cycle.
C20_Witness ==
    /\ C20_Cycle
    /\ resolver.pc = "done"
    /\ resolver.verdicts # <<>>
    /\ \E n \in DOMAIN resolver.chains : Len(resolver.chains[n].chain) = 2

----------------------------------------------------------------------------
(* C21 *)

\* The files of the theme's asset directory in its vendor package.
VendorThemeFiles ==
    IF VendorThemeTag.d \in DOMAIN src.pkgs[VendorThemeTag.i].dirs
    THEN src.pkgs[VendorThemeTag.i].dirs[VendorThemeTag.d]
    ELSE <<>>

\* C21: a theme that exists only at the vendor-package root has the files
\* of its own asset directory deployed into the job's destination, without
\* namespace prefix.
C21_VendorThemeDeployed ==
    (/\ dt.pc = "done"
     /\ inVendor(src, job)
     /\ ~inAppDesign(src, job))
    => \A rel \in DOMAIN VendorThemeFiles :
          /\ Join(destDirOf(job), rel) \in DOMAIN fs
          /\ fs[Join(destDirOf(job), rel)] = FileEntry(VendorThemeFiles[rel].c, TRUE)

----------------------------------------------------------------------------
(* C22 *)

\* The sequences that list every element of S once.
Perms(S) ==
    {o \in [1..Cardinality(S) -> S] : \A i, k \in 1..Cardinality(S) : o[i] = o[k] => i = k}

RECURSIVE copyInOrder(_, _, _, _, _)
\* The walk callback applied to the files in the order o, up to the first
\* error.
copyInOrder(st, files, o, dst, modulePrefix) ==
    IF o = <<>> \/ st.err THEN st
    ELSE copyInOrder(copyOne(st, files, Head(o), dst, modulePrefix), files,
                     Tail(o), dst, modulePrefix)

\* A copy the call is about to make: the tree it starts on, the files of the
\* source directory and the module prefix.
Copy(f, files, prefix) == [f |-> f, files |-> files, prefix |-> prefix]

\* The vendor loop's locals when the body for a package starts.
PackageStart == [fs |-> fs, count |-> 0, log |-> dt.log, skip |-> FALSE]

\* Package p cut down to a part of its directories and src/module-*
\* directories.
PartOf(p, dirs, subs) ==
    [p EXCEPT !.dirs = [d \in DOMAIN p.dirs \cap dirs |-> p.dirs[d]], !.subs = subs]

\* The vendor loop's locals before the k-th of the four blocks of package i.
BeforeDir(i, k) ==
    extPackage(PackageStart,
               PartOf(src.pkgs[i], {packageDirs(job)[m] : m \in 1..(k - 1)}, <<>>),
               i, job)

\* The same before the k-th block of the n-th src/module-* directory.
BeforeSubDir(i, n, k) ==
    extPackage(PackageStart,
               [src.pkgs[i] EXCEPT !.subs =
                   Append(SubSeq(src.pkgs[i].subs, 1, n - 1),
                          PartOf(src.pkgs[i].subs[n],
                                 {subModuleDirs(job)[m] : m \in 1..(k - 1)}, <<>>))],
               i, job)

\* A `continue` in an earlier block of the same src/module-* directory.
SubDirLeftOut(i, n, k) ==
    \E m \in 1..(k - 1) : \E e \in DOMAIN BeforeSubDir(i, n, k).log :
        /\ BeforeSubDir(i, n, k).log[e].tag = Tag("pkg", i, n, subModuleDirs(job)[m])
        /\ BeforeSubDir(i, n, k).log[e].err

EmailFree(name) == IF name = MagentoEmail THEN <<>> ELSE name

\* The copies of single directories the next step of the call makes.
PendingCopies ==
    CASE dt.pc = "theme" ->
           {Copy(fs, src.design[d], <<>>) : d \in {themeWebDirOf(job)} \cap DOMAIN src.design}
      [] dt.pc = "lib" ->
           {Copy(fs, src.lib, <<>>) : t \in {x \in {LibTag} : DOMAIN src.lib # {}}}
      [] dt.pc = "ext" /\ dt.pkgIdx <= Len(src.pkgs) ->
           {Copy(BeforeDir(dt.pkgIdx, k).fs, src.pkgs[dt.pkgIdx].dirs[packageDirs(job)[k]],
                 EmailFree(getModuleName(src.pkgs[dt.pkgIdx]))) :
              k \in {m \in 1..4 : /\ packageDirs(job)[m] \in DOMAIN src.pkgs[dt.pkgIdx].dirs
                                   /\ ~BeforeDir(dt.pkgIdx, m).skip}}
           \cup UNION {
             {Copy(BeforeSubDir(dt.pkgIdx, n, k).fs,
                   src.pkgs[dt.pkgIdx].subs[n].dirs[subModuleDirs(job)[k]],
                   getModuleName(src.pkgs[dt.pkgIdx].subs[n])) :
                k \in {m \in 1..2 :
                         /\ subModuleDirs(job)[m] \in DOMAIN src.pkgs[dt.pkgIdx].subs[n].dirs
                         /\ ~BeforeDir(dt.pkgIdx, 5).skip
                         /\ ~SubDirLeftOut(dt.pkgIdx, n, m)}}
             : n \in 1..Len(src.pkgs[dt.pkgIdx].subs)}
      [] OTHER -> {}

\* What copyDirectoryWithModulePrefix gives for copy c, and what the walk
\* callback gives when the files are taken in the order o.
Walked(c) == copyDirectoryWithModulePrefix(c.f, c.files, destDirOf(job), c.prefix)
Ordered(c, o) ==
    copyInOrder([fs |-> c.f, count |-> 0, err |-> FALSE, made |-> {}, at |-> "none"],
                c.files, o, destDirOf(job), c.prefix)

NoLinks(f) == \A p \in DOMAIN f : f[p].k # "link"

----------------------------------------------------------------------------
(* C23 *)

\* The worker goroutines started so far, and those processing a job.
StartedWorkers == {w \in DOMAIN workers : workers[w].pc # "none"}
BusyWorkers == {w \in DOMAIN workers : workers[w].pc \in {"deploy", "store"}}

\* Where the task of job i is: in the channel, with a worker, or processed
\* with its result written.
Queued(i) == {k \in DOMAIN jobChan.q : jobChan.q[k].resultIdx = i}
Holding(i) == {w \in BusyWorkers : workers[w].task.resultIdx = i}
Written(i) == {k \in DOMAIN stores : stores[k].slot = i}

\* The feeder has sent the task of job i.
Sent(i) == feeder.pc # "none" /\ i < feeder.i

\* C23: processJobs runs exactly numJobs workers; at most numJobs jobs are
\* being processed at any time; every job is taken from the queue by exactly
\* one worker and processed exactly once, none twice and none dropped.
C23_EachJobOnce ==
    /\ main.pc = "spawn" => Cardinality(StartedWorkers) = main.i
    /\ main.pc \in {"wait", "sum", "print", "check", "exited"} =>
          /\ Len(workers) = main.numJobs
          /\ StartedWorkers = DOMAIN workers
    /\ Cardinality(BusyWorkers) <= main.numJobs
    /\ \A i \in 1..Len(jobs) :
          /\ Cardinality(Queued(i)) + Cardinality(Holding(i)) + Cardinality(Written(i))
                = IF Sent(i) THEN 1 ELSE 0
          /\ \A w \in Holding(i) : workers[w].task.job = jobs[i]
          /\ Returned => Cardinality(Written(i)) = 1
    /\ \A k \in DOMAIN stores : stores[k].slot \in 1..Len(jobs)

\* C23 witness: processJobs returned after two workers processed three
\* jobs, two of them at the same time.
C23_Witness ==
    /\ Returned
    /\ main.numJobs = 2
    /\ Len(jobs) = 3
    /\ \E k \in DOMAIN stores : \E m \in DOMAIN stores :
          /\ k # m
          /\ stores[k].worker = stores[m].worker
    /\ \E k \in DOMAIN stores : \E m \in DOMAIN stores :
          stores[k].worker # stores[m].worker

----------------------------------------------------------------------------
(* C24 *)

\* No goroutine of processJobs is left: the feeder has closed the channel
\* and ended, every worker has returned, and no task is in the channel.
NoGoroutineLeft ==
    /\ feeder.pc = "done"
    /\ jobChan.closed
    /\ jobChan.q = <<>>
    /\ wg = 0
    /\ \A w \in DOMAIN workers : workers[w].pc = "done"

\* C24: for every job list, the empty one included, and every -jobs value
\* (a non-positive one is replaced by the CPU count, so numJobs >= 1),
\* processJobs eventually returns, and when it has returned the feeder and
\* all workers have exited.
C24_ProcessJobsReturns ==
    /\ [](main.pc # "parse" => main.numJobs >= 1)
    /\ [](Returned => NoGoroutineLeft)
    /\ <>(Returned)

\* C24 witness: processJobs has returned for an empty job list and a -jobs
\* value that is not positive.
C24_Witness ==
    /\ Returned
    /\ jobs = <<>>
    /\ args.jobs <= 0
    /\ Len(workers) >= 2
    /\ NoGoroutineLeft

----------------------------------------------------------------------------
(* C25 *)

\* The files the current call of deployTheme created at the destination.
CreatedByCall == PlacedBetween(StartFs, fs)

\* C25: the file count in a job's result is the number of files the job
\* created at the destination: skipped and excluded files are not counted,
\* and every file placed is counted, also when a later file, a later layer
\* or the job fails.
C25_CountIsFilesCreated ==
    dt.pc = "done" => dt.ret.count = Cardinality(CreatedByCall)

----------------------------------------------------------------------------
(* C26 *)

\* The copies of directories of extension packages that ended in an error.
FailedExtensionCopies ==
    {k \in DOMAIN dt.log : dt.log[k].err /\ dt.log[k].tag.g = "pkg"}

\* The directories of packages that come after directory t in the vendor
\* loop: the later directories of the same package, its src/module-*
\* directories, and the directories of every later package.
ExtensionLayersAfter(t) == {u \in LayerTags : u.g = "pkg" /\ LayerBefore(t, u)}

\* C26: when the copy of one directory of an extension package fails, only
\* that directory is skipped: the other directories of the same package,
\* its src/module-* directories and every later package are still
\* processed.
C26_OnlyFailedLayerSkipped ==
    dt.pc = "done" =>
        \A k \in FailedExtensionCopies :
            \A u \in ExtensionLayersAfter(dt.log[k].tag) : Ended(u) # "none"

----------------------------------------------------------------------------
(* C27 *)

\* The call behind store k could not create the job's destination directory.
DestinationFailed(k) == stores[k].err = "failed to create destination directory"

\* C27: when the job's root output directory cannot be created, the job is
\* aborted before any layer is read and before any file is placed, and the
\* error is in the job's result.
C27_DestinationFailureAborts ==
    \A k \in DOMAIN stores :
        DestinationFailed(k) =>
            /\ stores[k].log = <<>>
            /\ stores[k].placed = {}
            /\ stores[k].result.FilesCount = 0
            /\ stores[k].result.Error # <<>>

----------------------------------------------------------------------------
(* C28 *)

\* The files at the destination that come from a directory of a package.
PackageFiles == {d \in DestFiles : fs[d].c.t.g = "pkg"}

\* The module name of the package, or of the src/module-* directory, that
\* source directory t belongs to.
OwnerName(t) ==
    IF t.s = 0 THEN getModuleName(src.pkgs[t.i])
    ELSE getModuleName(src.pkgs[t.i].subs[t.s])

\* C28: every file placed from the view directories of a package is under
\* <dest>/<module name>/, also when the package's module descriptor is
\* missing or unreadable; no file of a package is placed directly at the
\* destination root.
C28_PackageFilesNamespaced ==
    \A d \in PackageFiles :
        /\ d # Join(destDirOf(job), fs[d].c.r)
        /\ OwnerName(fs[d].c.t) # <<>> =>
              d = Join(destDirOf(job), OwnerName(fs[d].c.t) \o fs[d].c.r)

----------------------------------------------------------------------------
(* C29 *)

\* The relative path has a directory named docs, at any depth.
BelowDocs(rel) == \E i \in 1..(Len(rel) - 1) : rel[i] = "docs"

\* C29: a file with a docs directory anywhere in its path relative to the
\* layer root, the first segment included, is never placed in the
\* destination.
C29_NoFileBelowDocs == \A d \in DestFiles : ~BelowDocs(fs[d].c.r)

----------------------------------------------------------------------------
(* C30 *)

\* The call behind store k refused the job's theme name.
InvalidTheme(k) == stores[k].err = "invalid theme name"

\* Worker w is about to call deployTheme for a job whose theme name is not
\* two parts.
AboutToRefuse(w) ==
    /\ workers[w].pc = "deploy"
    /\ Len(jobPaths(workers[w].task.job).Theme) # 2

\* C30: a job whose theme is not exactly two "/"-separated parts fails with
\* "invalid theme name" before the destination directory is created or a
\* file is placed, its result carries the error, and the process exits
\* with status 1.
C30_InvalidThemeFails ==
    /\ \A w \in DOMAIN workers :
          AboutToRefuse(w) =>
              LET d == deployTheme(fs, src, jobPaths(workers[w].task.job))
              IN  d.ret.err = "invalid theme name" /\ d.fs = fs
    /\ \A k \in DOMAIN stores :
          InvalidTheme(k) =>
              /\ stores[k].log = <<>>
              /\ stores[k].placed = {}
              /\ stores[k].result.Error # <<>>
              /\ main.pc = "exited" => main.exit = 1

----------------------------------------------------------------------------
(* C31 *)

\* The entries under pub/static (or, with a leading "..", outside it) that
\* exist now and did not before the first run.
CreatedPaths == DOMAIN fs \ DOMAIN hist[1].fs

\* The path is in the job's destination subtree, or is a directory on the
\* way down to it.
InOwnSubtree(p) == IsPrefix(destDirOf(job), p) \/ IsPrefix(p, destDirOf(job))

\* C31: every path a job creates is inside its destination subtree
\* pub/static/<area>/<theme>/<locale>, whatever module name the descriptors
\* hold.
C31_WritesInsideOwnSubtree == \A p \in CreatedPaths : InOwnSubtree(p)

----------------------------------------------------------------------------
(* C32 *)

\* C32: no file in the job's destination is a part of its source: a copy
\* that failed part-way left no entry at its destination path.
C32_NoPartialFileLeft == \A d \in DestFiles : fs[d].full

----------------------------------------------------------------------------
(* C33 *)

\* The call of deployTheme has ended with "theme directory not found": the
\* worker reports the job as skipped.
EndedNotFound == dt.pc = "done" /\ dt.ret.err = "theme directory not found"

\* C33: a job that ends as not found has left pub/static as it was before
\* the call: no file and no directory was created.
C33_NotFoundLeavesTreeUnchanged == EndedNotFound => fs = StartFs

----------------------------------------------------------------------------
(* C34 *)

\* The files of the directory whose name does not start with ".".
Visible(dir) == {p \in DOMAIN dir : ~HasDotPrefix(Base(p))}

\* The (relative path, modification time, size) entries of those files.
Entries(dir) == {<<p, dir[p].t, dir[p].size>> : p \in Visible(dir)}

\* The same entries with the modification time in whole seconds.
EntriesInSeconds(dir) == {<<p, Unix(dir[p].t), dir[p].size>> : p \in Visible(dir)}

\* The entries a map of hashes stands for.
Snapshot(hashes) == {<<p, hashes[p][1], hashes[p][3]>> : p \in DOMAIN hashes}

LastCall == watcher.last

\* What the call did to the stored snapshot: replaced by the current one
\* when it returned true, left alone when it returned false.
SnapshotFollows ==
    /\ LastCall.ret => Snapshot(LastCall.after) = EntriesInSeconds(LastCall.dir)
    /\ ~LastCall.ret => LastCall.after = LastCall.before

\* A call on a directory that is as the call before it saw it returns false.
QuietCallFalse == LastCall.clean => ~LastCall.ret

\* C34 as stated: hasChanges returns true exactly when the (relative path,
\* modification time, size) entries of the directory differ from those the
\* stored snapshot was taken from; the snapshot becomes the current one on
\* true and stays on false; a second call without a change returns false.
C34_TrueIffEntriesDiffer ==
    (watcher.pc # "none" /\ LastCall.called) =>
        /\ LastCall.ret <=> Entries(LastCall.dir) # Entries(LastCall.taken)
        /\ SnapshotFollows
        /\ QuietCallFalse

\* C34 with the modification time in whole seconds: hasChanges returns true
\* exactly when the (relative path, modification time in whole seconds,
\* size) entries differ from the stored snapshot.
C34_TrueIffSecondsDiffer ==
    (watcher.pc # "none" /\ LastCall.called) =>
        /\ Snapshot(LastCall.before) = EntriesInSeconds(LastCall.taken)
        /\ LastCall.ret <=> EntriesInSeconds(LastCall.dir) # Snapshot(LastCall.before)
        /\ SnapshotFollows
        /\ QuietCallFalse

\* A call returned true and led to a deployment, and the call after it, with
\* no change in between, returned false.
C34_Witness ==
    /\ watcher.pc # "none"
    /\ watcher.deployed
    /\ LastCall.called /\ LastCall.clean /\ ~LastCall.ret
    /\ Visible(LastCall.dir) # {}

----------------------------------------------------------------------------
(* C35 *)

\* Stop has been called.
StopCalled == \E s \in StopCallers : watcher.stops[s] # "idle"

\* A file was created, modified or deleted after Start returned, and no
\* deployment was triggered at a tick since.
ChangePending == watcher.pc # "none" /\ watcher.pending

\* C35: every creation, deletion or modification made after Start returned
\* is detected at a later tick and triggers a deployment, as long as ticks
\* continue and Stop is not called.
C35_ChangeTriggersDeployment == ChangePending ~> (~ChangePending \/ StopCalled)

----------------------------------------------------------------------------
(* C36 *)

\* Caller s is inside Stop, or back from it.
InStop(s) == watcher.pc # "none" /\ watcher.stops[s] = "sending"
StopReturned(s) == watcher.pc # "none" /\ watcher.stops[s] = "returned"

\* The goroutine of the watcher has returned: it starts no deployment.
WatcherEnded == watcher.pc = "returned"

\* C36: every call of Stop on a started watcher returns, and once a call
\* has returned the watcher starts no deployment.
C36_EveryStopReturns ==
    /\ \A s \in StopCallers : InStop(s) ~> StopReturned(s)
    /\ [](\A s \in StopCallers : StopReturned(s) => WatcherEnded)

----------------------------------------------------------------------------
(* C37 *)

\* The one call of PreprocessAndCompile has just staged the source files.
JustStaged == less.pc = "run" /\ less.calls[1].pc = "imports"

StagedFiles == less.staging.files

\* The staging sources of the call, in the order of the list.
SourceList == lessSources(less.calls[1].job.Area, less.calls[1].job.Theme)

\* The places in the list of the sources that provide the relative path.
Providers(rel) ==
    {n \in DOMAIN SourceList :
        SourceList[n] \in DOMAIN less.tree /\ rel \in DOMAIN less.tree[SourceList[n]]}

LastProvider(rel) == CHOOSE n \in Providers(rel) : \A m \in Providers(rel) : m <= n

\* The relative paths of the .less and .css files of all sources.
LessAndCss ==
    {rel \in UNION {DOMAIN less.tree[d] : d \in DOMAIN less.tree} :
        lowerExt(Base(rel)) \in {".less", ".css"}}

\* The staging directory holds the .less and .css files and nothing else,
\* each with all the bytes of the last source in the list that has it.
LastSourceStaged ==
    /\ DOMAIN StagedFiles = LessAndCss
    /\ \A rel \in LessAndCss :
          /\ StagedFiles[rel].k = SourceList[LastProvider(rel)]
          /\ StagedFiles[rel].r = rel
          /\ StagedFiles[rel].full

NoStagingCopyFails ==
    \A d \in DOMAIN less.tree : \A rel \in DOMAIN less.tree[d] :
        lowerExt(Base(rel)) \in {".less", ".css"} => less.tree[d][rel].io = "ok"

----------------------------------------------------------------------------
(* C38 *)

\* C38: of two calls of PreprocessAndCompile running at once on one root,
\* each compiles only from the files it staged itself, by the script it
\* wrote itself, and neither removes or overwrites the staging directory or
\* the script of the other before that one has finished.
C38_CallsDoNotInterfere ==
    less.pc = "run" =>
        \A c \in DOMAIN less.calls :
            ~less.calls[c].foreign /\ ~less.calls[c].clobbered

----------------------------------------------------------------------------
(* C39 *)

\* CompileEmailCSS was called in call c and has returned.
EmailCssReturned(c) ==
    /\ less.calls[c].pc \in {"cleanup", "returned"}
    /\ less.php
    /\ Len(less.calls[c].job.Theme) = 2

\* The email files that were in the staging directory, in the order of the
\* list.
PresentEmailFiles(c) == SelectSeq(emailFiles, LAMBDA n : n \in less.calls[c].present)

\* C39: the loop of CompileEmailCSS comes to each of the three email files,
\* the compiler is called for every one that is there, whatever became of
\* the files before it, and CompileEmailCSS returns no error, and so does
\* PreprocessAndCompile after it.
C39_EmailCssBestEffort ==
    less.pc = "run" =>
        \A c \in DOMAIN less.calls :
            /\ EmailCssReturned(c) =>
                  /\ less.calls[c].seen = emailFiles
                  /\ less.calls[c].tried = PresentEmailFiles(c)
                  /\ less.calls[c].err = NoError
            /\ (EmailCssReturned(c) /\ less.calls[c].pc = "returned") =>
                  less.calls[c].ret = NoError

\* email.less did not compile, email-inline.less after it did, and the call
\* returned.
C39_Witness ==
    /\ less.pc = "run"
    /\ less.calls[1].pc = "returned"
    /\ less.calls[1].failed = <<"email.less">>
    /\ less.calls[1].tried = <<"email.less", "email-inline.less">>
    /\ cssPath(less.calls[1].dest, "email-inline.less") \in DOMAIN less.out

====
